---- MODULE Spec2Model ----
(***************************************************************************)
(* Model of the vocabulary widget's scheduler core.                        *)
(*                                                                         *)
(* This part models GamificationTracker                                    *)
(* (src/src/core/gamification_tracker.py): the progress state kept in      *)
(* self.data, the day-boundary streak state machine, the achievement       *)
(* evaluation and the write of data/gamification.json.                     *)
(*                                                                         *)
(* Time.  datetime.now() reads the system wall clock.  Only the calendar   *)
(* date of a reading matters to the tracker, so the clock is a day         *)
(* ordinal.  record_word_viewed reads the clock three times (lines 54, 84  *)
(* and 122); the three readings are separate inputs of the action, so a    *)
(* call that straddles midnight is part of the model.  Between calls the   *)
(* wall clock moves on to the next day or is set back a day.               *)
(*                                                                         *)
(* The second part models HistoryTracker                                   *)
(* (src/src/core/history_tracker.py) and save_json_atomic                  *)
(* (src/src/utils/helpers.py): the exposure records kept in self.history,  *)
(* the debounced write of data/history.json and, step by step, the write   *)
(* through history.json.tmp.  Its clock counts hours.                      *)
(*                                                                         *)
(* Specifications: Spec runs the GamificationTracker, SpecHistory the      *)
(* HistoryTracker, SpecSave the steps of save_json_atomic.  Each leaves    *)
(* the variables of the others at their initial values.                    *)
(***************************************************************************)
EXTENDS Integers, Sequences, FiniteSets, TLC

VARIABLES
    now,        \* the wall clock: day ordinal, 0 = the date Epoch
    data,       \* GamificationTracker.data
    gam_file,   \* data/gamification.json
    call,       \* the latest record_word_viewed call of this run (history variable)
    log,        \* the streaks after each record_word_viewed call of this run (history variable)
    upsets,     \* the irregular events of this run so far (bounds the exploration)
    clock,      \* the wall clock read by HistoryTracker: hours, 0 = 00:00 of the date Epoch
    history,    \* HistoryTracker.history
    save_counter, \* HistoryTracker.save_counter
    fs,         \* the data directory: history.json and history.json.tmp
    hcall,      \* the latest HistoryTracker call of this run (history variable)
    since_write, \* record_display calls since save_json_atomic last ran (history variable)
    hops,       \* the HistoryTracker calls of this run so far (bounds the exploration)
    sv,         \* the save_json_atomic call in progress, for SpecSave
    vocab,      \* the vocabulary directory and what WordManager() made of it
    words,      \* WordManager.words
    config,     \* MainWindow.config: the list learning.enabled_categories
    current_word_id, \* MainWindow.current_word_id
    pick,       \* the latest select_next_word call of this run (history variable)
    toaster,    \* NotificationManager.toaster is not None
    threads,    \* the notification threads started so far
    notified,   \* the notifications printed or shown as toast so far
    overlay,    \* config: behavior.time_based_categories, learning.time_rules
                \* and appearance.enable_animations
    hash_order  \* the lists that list(set & set) of line 225 made in this
                \* process so far, one for each pair of lists intersected: the
                \* order in which a set of str enumerates is fixed in a process
                \* (str hashes are seeded per process)

gvars == <<now, data, gam_file, call, log, upsets>>

hvars == <<clock, history, save_counter, fs, hcall, since_write, hops, sv>>

wvars == <<vocab, words, config, current_word_id, pick, toaster, threads, notified, overlay,
           hash_order>>

vars == <<now, data, gam_file, call, log, upsets,
          clock, history, save_counter, fs, hcall, since_write, hops, sv,
          vocab, words, config, current_word_id, pick, toaster, threads, notified,
          overlay, hash_order>>

----------------------------------------------------------------------------
(* Bounds of the exploration *)

\* days after start-up that the clock may reach
MaxDays == 3
\* record_word_viewed calls explored per run
MaxCalls == 4
\* irregular events explored per run: a failed write, a clock set back a day, a call
\* that straddles midnight, a change of the daily goal
MaxUpsets == 1
\* record_display calls explored per run
MaxShows == 10
\* other events explored per run: the other calls of the HistoryTracker and
\* the hours that pass
MaxOthers == 1
\* failing writes of history.json explored per run
MaxFaults == 1
\* save_json_atomic calls explored per run
MaxSaves == 2

----------------------------------------------------------------------------
(* Calendar dates: datetime.strftime("%Y-%m-%d") *)

\* None of Python, for last_activity_date
None == 0

\* the date of day ordinal 0: 2023-11-20, so that the explored days run over
\* the end of a year and the leap day of 2024
Epoch == <<2023, 11, 20>>

IsLeap(y) == (y % 4 = 0 /\ y % 100 # 0) \/ y % 400 = 0

DaysInMonth(y, m) ==
    IF m = 2 THEN (IF IsLeap(y) THEN 29 ELSE 28)
    ELSE IF m \in {4, 6, 9, 11} THEN 30 ELSE 31

\* the "%Y-%m-%d" text of a date, as the number YYYYMMDD (the text is the
\* zero-padded digits of this number, so equal texts are equal numbers)
RECURSIVE DateText(_, _, _)
DateText(y, m, off) ==
    IF off < DaysInMonth(y, m) THEN y * 10000 + m * 100 + (off + 1)
    ELSE IF m = 12 THEN DateText(y + 1, 1, off - DaysInMonth(y, m))
    ELSE DateText(y, m + 1, off - DaysInMonth(y, m))

\* datetime.now().strftime("%Y-%m-%d") when the clock reads day t
Strftime(t) == DateText(Epoch[1], Epoch[2], t + Epoch[3] - 1)

\* a variant of Yesterday that goes back two days
Yesterday_two_days(t) == Strftime(t - 2)

\* (datetime.now() - timedelta(days=1)).strftime("%Y-%m-%d")
Yesterday(t) == Strftime(t - 1)

----------------------------------------------------------------------------
(* Achievement identifiers *)

\* a fixed identifier such as '7_day_streak'
Id(name) == [name |-> name, date |-> None]

\* f'daily_goal_{today}'
DailyGoalId(today) == [name |-> "daily_goal", date |-> today]

\* Python's "x in list"
In(x, list) == \E i \in DOMAIN list : list[i] = x

\* Python's "x not in list"
NotIn(x, list) == ~In(x, list)

\* list + [x] if cond else list
AppendIf(list, cond, x) == IF cond THEN Append(list, x) ELSE list

----------------------------------------------------------------------------
(* GamificationTracker *)

\* {}
EmptyDict == <<>>

\* the default data structure of _load_data
DefaultData ==
    [daily_goal          |-> 20,
     current_streak      |-> 0,
     longest_streak      |-> 0,
     total_words_learned |-> 0,
     total_study_days    |-> 0,
     achievements        |-> <<>>,
     daily_progress      |-> EmptyDict,
     last_activity_date  |-> None]

\* a variant of DictSet that drops the other keys
DictSet_alone(dict, key, value) == key :> value

\* dict[key] = value
DictSet(dict, key, value) == (key :> value) @@ dict

\* dict[key] if key in dict else default
DictGet(dict, key, default) == IF key \in DOMAIN dict THEN dict[key] ELSE default

\* a variant of _update_streak that leaves longest_streak alone
_update_streak_keeps_longest(d, today, t2) ==
    LET last_activity == d.last_activity_date
        yesterday == Yesterday(t2)
        d1 == IF last_activity = None
              THEN [d EXCEPT !.current_streak = 1, !.total_study_days = 1]
              ELSE IF last_activity = today
              THEN d
              ELSE IF last_activity = yesterday
              THEN [d EXCEPT !.current_streak = @ + 1, !.total_study_days = @ + 1]
              ELSE [d EXCEPT !.current_streak = 1, !.total_study_days = @ + 1]
        d2 == d1
    IN  [d2 EXCEPT !.last_activity_date = today]

\* a variant of _update_streak that starts a new streak on a consecutive day
_update_streak_restarts(d, today, t2) ==
    LET last_activity == d.last_activity_date
        yesterday == Yesterday(t2)
        d1 == IF last_activity = None
              THEN [d EXCEPT !.current_streak = 1, !.total_study_days = 1]
              ELSE IF last_activity = today
              THEN d
              ELSE IF last_activity = yesterday
              THEN [d EXCEPT !.current_streak = 1, !.total_study_days = @ + 1]
              ELSE [d EXCEPT !.current_streak = 1, !.total_study_days = @ + 1]
        d2 == IF d1.current_streak > d1.longest_streak
              THEN [d1 EXCEPT !.longest_streak = d1.current_streak]
              ELSE d1
    IN  [d2 EXCEPT !.last_activity_date = today]

\* a variant of _update_streak that goes on with the streak after a gap
_update_streak_goes_on(d, today, t2) ==
    LET last_activity == d.last_activity_date
        yesterday == Yesterday(t2)
        d1 == IF last_activity = None
              THEN [d EXCEPT !.current_streak = 1, !.total_study_days = 1]
              ELSE IF last_activity = today
              THEN d
              ELSE IF last_activity = yesterday
              THEN [d EXCEPT !.current_streak = @ + 1, !.total_study_days = @ + 1]
              ELSE [d EXCEPT !.current_streak = @ + 1, !.total_study_days = @ + 1]
        d2 == IF d1.current_streak > d1.longest_streak
              THEN [d1 EXCEPT !.longest_streak = d1.current_streak]
              ELSE d1
    IN  [d2 EXCEPT !.last_activity_date = today]

\* a variant of _update_streak that counts a study day on every call
_update_streak_counts_calls(d, today, t2) ==
    LET last_activity == d.last_activity_date
        yesterday == Yesterday(t2)
        d1 == IF last_activity = None
              THEN [d EXCEPT !.current_streak = 1, !.total_study_days = 1]
              ELSE IF last_activity = today
              THEN [d EXCEPT !.total_study_days = @ + 1]
              ELSE IF last_activity = yesterday
              THEN [d EXCEPT !.current_streak = @ + 1, !.total_study_days = @ + 1]
              ELSE [d EXCEPT !.current_streak = 1, !.total_study_days = @ + 1]
        d2 == IF d1.current_streak > d1.longest_streak
              THEN [d1 EXCEPT !.longest_streak = d1.current_streak]
              ELSE d1
    IN  [d2 EXCEPT !.last_activity_date = today]

\* _update_streak that does not count the day on which a streak restarts
_update_streak_uncounted_restart(d, today, t2) ==
    LET last_activity == d.last_activity_date
        yesterday == Yesterday(t2)
        d1 == IF last_activity = None
              THEN [d EXCEPT !.current_streak = 1, !.total_study_days = 1]
              ELSE IF last_activity = today
              THEN d
              ELSE IF last_activity = yesterday
              THEN [d EXCEPT !.current_streak = @ + 1, !.total_study_days = @ + 1]
              ELSE [d EXCEPT !.current_streak = 1]
        d2 == IF d1.current_streak > d1.longest_streak
              THEN [d1 EXCEPT !.longest_streak = d1.current_streak]
              ELSE d1
    IN  [d2 EXCEPT !.last_activity_date = today]

\* _update_streak(today); t2 is the clock reading of line 84
_update_streak(d, today, t2) ==
    LET last_activity == d.last_activity_date
        yesterday == Yesterday(t2)
        d1 == IF last_activity = None
              THEN [d EXCEPT !.current_streak = 1, !.total_study_days = 1]
              ELSE IF last_activity = today
              THEN d
              ELSE IF last_activity = yesterday
              THEN [d EXCEPT !.current_streak = @ + 1, !.total_study_days = @ + 1]
              ELSE [d EXCEPT !.current_streak = 1, !.total_study_days = @ + 1]
        d2 == IF d1.current_streak > d1.longest_streak
              THEN [d1 EXCEPT !.longest_streak = d1.current_streak]
              ELSE d1
    IN  [d2 EXCEPT !.last_activity_date = today]

\* a variant of StreakReached that wants the threshold passed
StreakReached_late(d, t) == d.current_streak > t

\* self.data['current_streak'] >= t (lines 106, 108, 110)
StreakReached(d, t) == d.current_streak >= t

\* self.data['total_words_learned'] >= t (lines 114, 116, 118)
WordsReached(d, t) == d.total_words_learned >= t

\* a variant of GoalReached that wants the goal met exactly
GoalReached_exactly(d, today) ==
    today \in DOMAIN d.daily_progress /\ d.daily_progress[today] = d.daily_goal

\* today in daily_progress and words_today >= daily_goal (lines 123-125)
GoalReached(d, today) ==
    today \in DOMAIN d.daily_progress /\ d.daily_progress[today] >= d.daily_goal

\* a variant of NotYet that forgets what is unlocked
NotYet_forgetful(id, achievements) == TRUE

\* the test "id not in achievements" of lines 106-125
NotYet(id, achievements) == NotIn(id, achievements)

\* the new_achievements list of _check_achievements; t3 is the clock reading of line 122
new_achievements(d, t3) ==
    LET achievements == d.achievements
        today == Strftime(t3)
        n1 == AppendIf(<<>>, StreakReached(d, 7) /\ NotYet(Id("7_day_streak"), achievements),
                       Id("7_day_streak"))
        n2 == AppendIf(n1, StreakReached(d, 30) /\ NotYet(Id("30_day_streak"), achievements),
                       Id("30_day_streak"))
        n3 == AppendIf(n2, StreakReached(d, 100) /\ NotYet(Id("100_day_streak"), achievements),
                       Id("100_day_streak"))
        n4 == AppendIf(n3, WordsReached(d, 100) /\ NotYet(Id("100_words"), achievements),
                       Id("100_words"))
        n5 == AppendIf(n4, WordsReached(d, 500) /\ NotYet(Id("500_words"), achievements),
                       Id("500_words"))
        n6 == AppendIf(n5, WordsReached(d, 1000) /\ NotYet(Id("1000_words"), achievements),
                       Id("1000_words"))
    IN  AppendIf(n6, GoalReached(d, today) /\ NotYet(DailyGoalId(today), achievements),
                 DailyGoalId(today))

\* the loop of lines 129-131: append each new achievement that is not in the list
RECURSIVE AddNew(_, _)
AddNew(achievements, new) ==
    IF new = <<>> THEN achievements
    ELSE AddNew(AppendIf(achievements, NotIn(Head(new), achievements), Head(new)), Tail(new))

\* _check_achievements(): the data it leaves and the list it returns
_check_achievements(d, t3) ==
    LET new == new_achievements(d, t3)
    IN  [data |-> [d EXCEPT !.achievements = AddNew(d.achievements, new)],
         ret  |-> new]

\* record_word_viewed that counts a word only once a day in the total
record_word_viewed_once_a_day(d, t1, t2, t3) ==
    LET today == Strftime(t1)
        d1 == [d EXCEPT !.daily_progress = DictSet(@, today, DictGet(@, today, 0) + 1),
                        !.total_words_learned =
                            IF today \in DOMAIN d.daily_progress THEN @ ELSE @ + 1]
        d2 == _update_streak(d1, today, t2)
        chk == _check_achievements(d2, t3)
    IN  [data |-> chk.data, new |-> chk.ret, ret |-> None]

\* record_word_viewed() up to save_data: t1, t2, t3 are the clock readings of
\* lines 54, 84 and 122.  The value of _check_achievements is dropped (line 67)
\* and the method returns None.
record_word_viewed(d, t1, t2, t3) ==
    LET today == Strftime(t1)
        d1 == [d EXCEPT !.daily_progress = DictSet(@, today, DictGet(@, today, 0) + 1),
                        !.total_words_learned = @ + 1]
        d2 == _update_streak(d1, today, t2)
        chk == _check_achievements(d2, t3)
    IN  [data |-> chk.data, new |-> chk.ret, ret |-> None]

\* set_daily_goal(goal) up to save_data
set_daily_goal(d, goal) == [d EXCEPT !.daily_goal = goal]

\* save_data(): what data/gamification.json holds afterwards.  open(.., 'w')
\* truncates the file and json.dump writes into it in place; an exception is
\* caught and printed.  io is what the file system does:
\*   "ok"      the dump completes
\*   "no_open" mkdir or open raises: the file is not touched
\*   "torn"    the dump raises after open truncated the file: a prefix of the
\*             new document is left
save_data(file, d, io) ==
    IF io = "ok" THEN [state |-> "written", doc |-> d]
    ELSE IF io = "torn" THEN [state |-> "torn", doc |-> d]
    ELSE file

\* _load_data(): the file's document when it exists and parses, else the default
_load_data(file) == IF file.state = "written" THEN file.doc ELSE DefaultData

IoOutcomes == {"ok", "no_open", "torn"}

----------------------------------------------------------------------------
(* Earlier runs of the program: what gamification.json can hold at start-up *)

\* k calls of record_word_viewed on day t, starting from d.  The calls are
\* split in halves, and the test on the first half has it evaluated before the
\* second half is begun, which keeps the evaluation shallow.
RECURSIVE ViewsOn(_, _, _)
ViewsOn(d, t, k) ==
    IF k = 0 THEN d
    ELSE IF k = 1 THEN record_word_viewed(d, t, t, t).data
    ELSE LET half == ViewsOn(d, t, k \div 2)
         IN  IF half.total_words_learned >= 0 THEN ViewsOn(half, t, k - k \div 2) ELSE half

\* k calls a day on each of the n days from day t on, starting from d
RECURSIVE PlayedFrom(_, _, _, _)
PlayedFrom(d, t, n, k) ==
    IF n = 0 THEN d
    ELSE IF n = 1 THEN ViewsOn(d, t, k)
    ELSE LET half == PlayedFrom(d, t, n \div 2, k)
         IN  IF half.total_words_learned >= 0
             THEN PlayedFrom(half, t + n \div 2, n - n \div 2, k)
             ELSE half

\* k calls a day on each of the n days that end with day t, from the default data
Played(t, n, k) == PlayedFrom(DefaultData, t - n + 1, n, k)

\* the earlier runs explored: none (no file), and runs of consecutive days that
\* end just below the thresholds of the achievements
EarlierRuns ==
    {[days |-> 0,  per_day |-> 0],
     [days |-> 6,  per_day |-> 1],
     [days |-> 29, per_day |-> 1],
     [days |-> 99, per_day |-> 1],
     [days |-> 2,  per_day |-> 249],
     [days |-> 2,  per_day |-> 499]}

\* the day of start-up: the last day of the longest earlier run
Boot == CHOOSE n \in {r.days : r \in EarlierRuns} : \A r \in EarlierRuns : r.days <= n

\* the days the wall clock may read in this run
Days == Boot .. (Boot + MaxDays)

\* the values given to set_daily_goal
Goals == {1, 20}

----------------------------------------------------------------------------
(* Timestamps of the history: datetime.isoformat() and fromisoformat() *)

\* the "%Y-%m-%dT%H" part of the isoformat text of hour t, as the number
\* YYYYMMDDHH: the fields of the text are zero-padded, so the order of the
\* texts as strings is the order of these numbers
Isoformat(t) == Strftime(t \div 24) * 100 + (t % 24)

\* the key that a record without 'last_shown' gets in cleanup_old_entries: the
\* empty string, which sorts before every timestamp text
EmptyText == -1

\* the days from the first day of the month of Epoch to the first day of
\* month m of year y
RECURSIVE MonthStart(_, _)
MonthStart(y, m) ==
    IF y = Epoch[1] /\ m = Epoch[2] THEN 0
    ELSE IF m = 1 THEN MonthStart(y - 1, 12) + DaysInMonth(y - 1, 12)
    ELSE MonthStart(y, m - 1) + DaysInMonth(y, m - 1)

\* datetime.fromisoformat(text): the hour that the text names, for a text
\* that isoformat() wrote (a date in or after the month of Epoch)
Fromisoformat(text) ==
    LET date == text \div 100
        day == MonthStart(date \div 10000, (date \div 100) % 100)
               + (date % 100) - Epoch[3]
    IN  day * 24 + (text % 100)

----------------------------------------------------------------------------
(* HistoryTracker.history: a dict, which keeps the order of insertion *)

\* str(word_id)
Str(n) ==
    LET digit(k) == <<"0", "1", "2", "3", "4", "5", "6", "7", "8", "9">>[k + 1]
    IN  IF n < 10 THEN digit(n) ELSE digit(n \div 10) \o digit(n % 10)

\* {}
EmptyHistory == <<>>

\* word_key in self.history
HasKey(h, key) == \E i \in DOMAIN h : h[i].key = key

\* self.history[word_key]
Item(h, key) == h[CHOOSE i \in DOMAIN h : h[i].key = key].value

\* self.history[word_key] = value: a new key goes last, a known key keeps its place
SetItem(h, key, value) ==
    IF HasKey(h, key)
    THEN [i \in DOMAIN h |-> IF h[i].key = key THEN [key |-> key, value |-> value] ELSE h[i]]
    ELSE Append(h, [key |-> key, value |-> value])

\* the record that record_display, mark_known and mark_difficult create
NewRecord(t) ==
    [times_shown |-> 0, last_shown |-> None, first_shown |-> Isoformat(t)]

\* record.get(field, default)
Field(record, field, default) ==
    IF field \in DOMAIN record THEN record[field] ELSE default

\* record[field] = value
SetField(record, field, value) == (field :> value) @@ record

\* get_word_history(word_id) is None
NoHistory(h, word_id) == ~ HasKey(h, Str(word_id))

\* get_times_shown(word_id)
get_times_shown(h, word_id) ==
    IF NoHistory(h, word_id) THEN 0 ELSE Item(h, Str(word_id)).times_shown

\* get_hours_since_shown(word_id) at clock reading t; None when the word has
\* no record or its last_shown is None
get_hours_since_shown(h, word_id, t) ==
    IF NoHistory(h, word_id) THEN [none |-> TRUE, hours |-> 0]
    ELSE IF Field(Item(h, Str(word_id)), "last_shown", None) = None
         THEN [none |-> TRUE, hours |-> 0]
    ELSE [none |-> FALSE,
          hours |-> t - Fromisoformat(Item(h, Str(word_id)).last_shown)]

\* is_marked_known(word_id)
is_marked_known(h, word_id) ==
    IF NoHistory(h, word_id) THEN FALSE
    ELSE Field(Item(h, Str(word_id)), "marked_known", FALSE)

\* is_marked_difficult(word_id)
is_marked_difficult(h, word_id) ==
    IF NoHistory(h, word_id) THEN FALSE
    ELSE Field(Item(h, Str(word_id)), "marked_difficult", FALSE)

----------------------------------------------------------------------------
(* The data directory and save_json_atomic / load_json_safe (helpers.py) *)

\* a file that does not exist
MissingFile == [state |-> "missing", doc |-> EmptyHistory]

\* a file that holds no complete JSON document: open(path, 'w') has emptied
\* it, or the dump stopped part-way
TornFile == [state |-> "torn", doc |-> EmptyHistory]

\* a file that holds the complete JSON text of a dict; json.load gives back an
\* equal dict (string keys; int, str, bool and None values)
WrittenFile(d) == [state |-> "written", doc |-> d]

\* json.dump can encode the dict: no value is of a type outside JSON (such a
\* value is a record with the field 'object')
Serialisable(d) == \A i \in DOMAIN d : "object" \notin DOMAIN d[i].value

\* a save_json_atomic call about to run line 72
SaveCall(dir) ==
    [pc |-> "makedirs", fs |-> dir, temp_path |-> FALSE, exc |-> "none", ret |-> "none"]

\* the steps of save_json_atomic where an OSError can strike: "except" is the
\* os.remove of the handler
SaveSteps == {"makedirs", "open", "dump", "fsync", "replace", "except"}

\* the faults of one call: the step that fails; "remove" is a directory that
\* has become read-only, where os.replace fails and the handler's os.remove
\* fails as well
SaveFaults == {"none", "makedirs", "open", "dump", "fsync", "replace", "remove"}

\* the fault makes the step at pc fail
Strikes(fault, pc) ==
    \/ fault = pc
    \/ fault = "remove" /\ pc \in {"replace", "except"}

\* os.replace(temp_path, filepath) written as a copy that a kill can interrupt
save_step_in_place(p, d, failing) ==
    IF p.pc = "makedirs" THEN
        IF failing THEN [p EXCEPT !.pc = "except"]
        ELSE [p EXCEPT !.pc = "open", !.fs.dir = TRUE]
    ELSE IF p.pc = "open" THEN
        IF failing THEN [p EXCEPT !.pc = "except", !.temp_path = TRUE]
        ELSE [p EXCEPT !.pc = "dump", !.temp_path = TRUE, !.fs.target = TornFile]
    ELSE IF p.pc = "dump" THEN
        IF failing THEN [p EXCEPT !.pc = "except", !.fs.target = TornFile]
        ELSE IF ~ Serialisable(d)
        THEN [p EXCEPT !.pc = "raised", !.exc = "TypeError", !.fs.target = TornFile]
        ELSE [p EXCEPT !.pc = "fsync", !.fs.target = WrittenFile(d)]
    ELSE IF p.pc = "fsync" THEN
        IF failing THEN [p EXCEPT !.pc = "except"]
        ELSE [p EXCEPT !.pc = "replace"]
    ELSE IF p.pc = "replace" THEN
        IF failing THEN [p EXCEPT !.pc = "except"]
        ELSE [p EXCEPT !.pc = "returned", !.ret = "True"]
    ELSE IF p.pc = "except" THEN
        IF ~ p.temp_path
        THEN [p EXCEPT !.pc = "raised", !.exc = "UnboundLocalError"]
        ELSE [p EXCEPT !.pc = "returned", !.ret = "False"]
    ELSE p

\* one step of save_json_atomic(filepath, d); failing: the step's system call
\* raises an OSError
save_step(p, d, failing) ==
    IF p.pc = "makedirs" THEN
        \* line 72: os.makedirs(dirname, exist_ok=True)
        IF failing THEN [p EXCEPT !.pc = "except"]
        ELSE [p EXCEPT !.pc = "open", !.fs.dir = TRUE]
    ELSE IF p.pc = "open" THEN
        \* lines 75-76: temp_path is bound, then open(temp_path, 'w') empties the file
        IF failing THEN [p EXCEPT !.pc = "except", !.temp_path = TRUE]
        ELSE [p EXCEPT !.pc = "dump", !.temp_path = TRUE, !.fs.tmp = TornFile]
    ELSE IF p.pc = "dump" THEN
        \* lines 77-78: json.dump and flush.  A failing write raises an OSError,
        \* also when json.dump has raised a TypeError (the file is closed on
        \* the way out and the OSError of the close replaces it); a TypeError
        \* alone is not an OSError and leaves the function through no handler
        IF failing THEN [p EXCEPT !.pc = "except", !.fs.tmp = TornFile]
        ELSE IF ~ Serialisable(d)
        THEN [p EXCEPT !.pc = "raised", !.exc = "TypeError", !.fs.tmp = TornFile]
        ELSE [p EXCEPT !.pc = "fsync", !.fs.tmp = WrittenFile(d)]
    ELSE IF p.pc = "fsync" THEN
        \* line 79: os.fsync(f.fileno()); the file holds the whole document
        IF failing THEN [p EXCEPT !.pc = "except"]
        ELSE [p EXCEPT !.pc = "replace"]
    ELSE IF p.pc = "replace" THEN
        \* lines 82-83: os.replace(temp_path, filepath); return True
        IF failing THEN [p EXCEPT !.pc = "except"]
        ELSE [p EXCEPT !.pc = "returned", !.ret = "True",
                       !.fs.target = p.fs.tmp, !.fs.tmp = MissingFile]
    ELSE IF p.pc = "except" THEN
        \* lines 85-93: the handler reads temp_path, removes the file when it
        \* exists (an os.remove that raises is passed over), returns False
        IF ~ p.temp_path
        THEN [p EXCEPT !.pc = "raised", !.exc = "UnboundLocalError"]
        ELSE IF p.fs.tmp.state = "missing" \/ failing
        THEN [p EXCEPT !.pc = "returned", !.ret = "False"]
        ELSE [p EXCEPT !.pc = "returned", !.ret = "False", !.fs.tmp = MissingFile]
    ELSE p

\* the call has returned or raised
SaveOver(p) == p.pc \in {"returned", "raised"}

RECURSIVE RunSave(_, _, _)
RunSave(p, d, fault) ==
    IF SaveOver(p) THEN p ELSE RunSave(save_step(p, d, Strikes(fault, p.pc)), d, fault)

\* save_json_atomic(filepath, d) run to its end; fault: what fails
save_json_atomic(dir, d, fault) == RunSave(SaveCall(dir), d, fault)

\* a file whose bytes are not UTF-8 text: written in another encoding, or cut
\* inside a character
UndecodableFile == [state |-> "undecodable", doc |-> EmptyHistory]

\* load_json_safe(filepath): None when the file is missing or does not
\* parse; the UnicodeDecodeError of a file that is not UTF-8 is neither a
\* JSONDecodeError nor an IOError and leaves the function (line 51)
load_json_safe(file) ==
    IF file.state = "written"
    THEN [none |-> FALSE, data |-> file.doc, exc |-> "none"]
    ELSE IF file.state = "undecodable"
    THEN [none |-> TRUE, data |-> EmptyHistory, exc |-> "UnicodeDecodeError"]
    ELSE [none |-> TRUE, data |-> EmptyHistory, exc |-> "none"]

\* HistoryTracker._load_history() when it returns
_load_history(dir) ==
    LET loaded == load_json_safe(dir.target)
    IN  IF loaded.none THEN EmptyHistory ELSE loaded.data

\* the exception that leaves _load_history(), HistoryTracker() and
\* MainWindow() ("none": they return)
_load_history_exc(dir) == load_json_safe(dir.target).exc

\* ensure_data_files_exist(), lines 181-183: when there is no history.json,
\* {} is written to it
ensure_data_files_exist(dir) ==
    IF dir.target.state = "missing"
    THEN save_json_atomic(dir, EmptyHistory, "none").fs
    ELSE dir

----------------------------------------------------------------------------
(* HistoryTracker (history_tracker.py) *)

\* A tracker is [history, save_counter, fs]: self.history, self.save_counter
\* and the data directory.  A method gives the tracker it leaves, with
\*   exc    the exception it raised ("none": it returned),
\*   saved  whether it ran save_json_atomic,
\*   ret    what save_json_atomic returned ("none": not run, or it raised).
Done(tr, saved) ==
    [history |-> tr.history, save_counter |-> tr.save_counter, fs |-> tr.fs,
     exc |-> "none", saved |-> saved, ret |-> "none"]

\* HistoryTracker(history_path)
HistoryTracker(dir) ==
    [history |-> _load_history(dir), save_counter |-> 0, fs |-> dir]

\* lines 42-43 and 47-48: the write, then the reset of the counter; an
\* exception of save_json_atomic leaves before the reset
WriteAndReset(tr, fault) ==
    LET s == save_json_atomic(tr.fs, tr.history, fault)
    IN  [history |-> tr.history,
         save_counter |-> IF s.pc = "raised" THEN tr.save_counter ELSE 0,
         fs |-> s.fs, exc |-> s.exc, saved |-> TRUE, ret |-> s.ret]

\* save_history that writes only on the sixth call
save_history_sixth(tr, force, fault) ==
    IF force THEN WriteAndReset(tr, fault)
    ELSE LET counted == [tr EXCEPT !.save_counter = @ + 1]
         IN  IF counted.save_counter > 5 THEN WriteAndReset(counted, fault)
             ELSE Done(counted, FALSE)

\* save_history that debounces the forced calls as well
save_history_unforced(tr, force, fault) ==
    LET counted == [tr EXCEPT !.save_counter = @ + 1]
    IN  IF counted.save_counter >= 5 THEN WriteAndReset(counted, fault)
        ELSE Done(counted, FALSE)

\* save_history that leaves the counter as it is after a forced write
save_history_keeps_count(tr, force, fault) ==
    IF force THEN [WriteAndReset(tr, fault) EXCEPT !.save_counter = tr.save_counter]
    ELSE LET counted == [tr EXCEPT !.save_counter = @ + 1]
         IN  IF counted.save_counter >= 5 THEN WriteAndReset(counted, fault)
             ELSE Done(counted, FALSE)

\* save_history(force)
save_history(tr, force, fault) ==
    IF force THEN WriteAndReset(tr, fault)
    ELSE LET counted == [tr EXCEPT !.save_counter = @ + 1]
         IN  IF counted.save_counter >= 5 THEN WriteAndReset(counted, fault)
             ELSE Done(counted, FALSE)

\* lines 59-64, 118-123, 131-136: the record of the word, created when absent
WithRecord(h, word_key, t) ==
    IF ~ HasKey(h, word_key) THEN SetItem(h, word_key, NewRecord(t)) ELSE h

\* record_display that clears the marks of the word
record_display_unmarks(tr, word_id, t1, t2, fault) ==
    LET word_key == Str(word_id)
        h1 == SetItem(tr.history, word_key, NewRecord(t1))
        shown == SetField(Item(h1, word_key), "times_shown",
                          get_times_shown(tr.history, word_id) + 1)
        h2 == SetItem(h1, word_key, SetField(shown, "last_shown", Isoformat(t2)))
    IN  save_history([tr EXCEPT !.history = h2], FALSE, fault)

\* record_display(word_id); t1 and t2 are the clock readings of lines 63 and 67
record_display(tr, word_id, t1, t2, fault) ==
    LET word_key == Str(word_id)
        h1 == WithRecord(tr.history, word_key, t1)
        shown == SetField(Item(h1, word_key), "times_shown",
                          Item(h1, word_key).times_shown + 1)
        h2 == SetItem(h1, word_key, SetField(shown, "last_shown", Isoformat(t2)))
    IN  save_history([tr EXCEPT !.history = h2], FALSE, fault)

\* mark_known that leaves marked_difficult as it is
mark_known_only(tr, word_id, t, fault) ==
    LET word_key == Str(word_id)
        h1 == WithRecord(tr.history, word_key, t)
        known == SetField(Item(h1, word_key), "marked_known", TRUE)
        h2 == SetItem(h1, word_key, known)
    IN  save_history([tr EXCEPT !.history = h2], TRUE, fault)

\* mark_known that always starts the record of the word afresh
mark_known_resets(tr, word_id, t, fault) ==
    LET word_key == Str(word_id)
        h1 == SetItem(tr.history, word_key, NewRecord(t))
        known == SetField(Item(h1, word_key), "marked_known", TRUE)
        h2 == SetItem(h1, word_key, SetField(known, "marked_difficult", FALSE))
    IN  save_history([tr EXCEPT !.history = h2], TRUE, fault)

\* mark_known with the debounced save of record_display
mark_known_debounced(tr, word_id, t, fault) ==
    LET word_key == Str(word_id)
        h1 == WithRecord(tr.history, word_key, t)
        known == SetField(Item(h1, word_key), "marked_known", TRUE)
        h2 == SetItem(h1, word_key, SetField(known, "marked_difficult", FALSE))
    IN  save_history([tr EXCEPT !.history = h2], FALSE, fault)

\* mark_known that counts the mark as a display
mark_known_counts(tr, word_id, t, fault) ==
    LET word_key == Str(word_id)
        h1 == WithRecord(tr.history, word_key, t)
        shown == SetField(Item(h1, word_key), "times_shown",
                          Item(h1, word_key).times_shown + 1)
        known == SetField(shown, "marked_known", TRUE)
        h2 == SetItem(h1, word_key, SetField(known, "marked_difficult", FALSE))
    IN  save_history([tr EXCEPT !.history = h2], TRUE, fault)

\* mark_known(word_id); t is the clock reading of line 122
mark_known(tr, word_id, t, fault) ==
    LET word_key == Str(word_id)
        h1 == WithRecord(tr.history, word_key, t)
        known == SetField(Item(h1, word_key), "marked_known", TRUE)
        h2 == SetItem(h1, word_key, SetField(known, "marked_difficult", FALSE))
    IN  save_history([tr EXCEPT !.history = h2], TRUE, fault)

\* mark_difficult(word_id); t is the clock reading of line 135
mark_difficult(tr, word_id, t, fault) ==
    LET word_key == Str(word_id)
        h1 == WithRecord(tr.history, word_key, t)
        difficult == SetField(Item(h1, word_key), "marked_difficult", TRUE)
        h2 == SetItem(h1, word_key, SetField(difficult, "marked_known", FALSE))
    IN  save_history([tr EXCEPT !.history = h2], TRUE, fault)

\* the sort key of line 164: x[1].get('last_shown', '')
SortKey(item) == Field(item.value, "last_shown", EmptyText)

\* sorted() compares the keys with <, which raises a TypeError when one of the
\* two is None; with two items or more every key is compared
SortRaises(h) == Len(h) >= 2 /\ \E i \in DOMAIN h : SortKey(h[i]) = None

\* an item put into a list sorted by descending key, after the items with an
\* equal key
InsertDescending(sorted, item) ==
    LET before == Cardinality({i \in DOMAIN sorted : SortKey(sorted[i]) >= SortKey(item)})
    IN  SubSeq(sorted, 1, before) \o <<item>> \o SubSeq(sorted, before + 1, Len(sorted))

\* sorted(items, key=..., reverse=True): descending, items with equal keys in
\* their order in the dict
RECURSIVE SortedDescending(_)
SortedDescending(h) ==
    IF h = <<>> THEN <<>>
    ELSE InsertDescending(SortedDescending(SubSeq(h, 1, Len(h) - 1)), h[Len(h)])

\* sorted_items[:max_entries]
SliceTo(items, max_entries) ==
    IF max_entries >= 0
    THEN SubSeq(items, 1, IF max_entries < Len(items) THEN max_entries ELSE Len(items))
    ELSE SubSeq(items, 1, IF Len(items) + max_entries > 0 THEN Len(items) + max_entries ELSE 0)

\* cleanup_old_entries(max_entries)
cleanup_old_entries(tr, max_entries, fault) ==
    IF Len(tr.history) <= max_entries THEN Done(tr, FALSE)
    ELSE IF SortRaises(tr.history)
    THEN [history |-> tr.history, save_counter |-> tr.save_counter, fs |-> tr.fs,
          exc |-> "TypeError", saved |-> FALSE, ret |-> "none"]
    ELSE LET sorted_items == SortedDescending(tr.history)
         IN  save_history([tr EXCEPT !.history = SliceTo(sorted_items, max_entries)],
                          TRUE, fault)

----------------------------------------------------------------------------
(* Earlier runs of the program: what the data directory can hold at start-up *)

\* word ids 1..n shown once each, two hours apart, the last one at hour t
RECURSIVE ShownUpTo(_, _, _)
ShownUpTo(dir, n, t) ==
    IF n = 0 THEN HistoryTracker(dir)
    ELSE record_display(ShownUpTo(dir, n - 1, t - 2), n, t, t, "none")

\* a data directory that was never created
NoDir == [dir |-> FALSE, target |-> MissingFile, tmp |-> MissingFile]

\* the directory after ensure_data_files_exist() has written an empty history
EmptyStore == save_json_atomic(NoDir, EmptyHistory, "none").fs

\* the start of the runs explored: 2024-02-29T22
HStart == (Boot + 2) * 24 + 22

\* the directory after a run that showed the words 1..5 and was closed
FiveShownStore == save_history(ShownUpTo(EmptyStore, 5, HStart - 3), TRUE, "none").fs

\* the directory after a run that showed the words 1 and 2, marked word 1 as
\* difficult and marked word 3, which it never showed, as known
MarkedStore ==
    LET shown == ShownUpTo(EmptyStore, 2, HStart - 3)
        marked == mark_difficult(shown, 1, HStart - 2, "none")
    IN  mark_known(marked, 3, HStart - 2, "none").fs

StartDirs == {NoDir, EmptyStore, FiveShownStore, MarkedStore}

----------------------------------------------------------------------------
(* The variables of a part of the program that is not running *)

NoHCall ==
    [op |-> "none", word_id |-> 0, max_entries |-> 0,
     exc |-> "none", saved |-> FALSE, ret |-> "none"]

NoOps == [shows |-> 0, others |-> 0, faults |-> 0]

NoSave ==
    [live |-> "idle", p |-> SaveCall(NoDir), d |-> EmptyHistory,
     before |-> MissingFile, saves |-> 0, loaded |-> EmptyHistory]

\* no vocabulary directory
\* the time rules of the default configuration (main_window.py lines 81-86)
DefaultTimeRules ==
    [morning |-> <<"food", "adjectives">>, afternoon |-> <<"verbs", "travel">>,
     evening |-> <<"animals", "body">>, night |-> <<"core_1000">>]

\* the orders in which a set S of category names may enumerate: each member
\* once, in any order
HashOrders(S) ==
    {order \in [1 .. Cardinality(S) -> S] :
        \A i, j \in 1 .. Cardinality(S) : order[i] = order[j] => i = j}

\* the members of a list
Members(list) == {list[i] : i \in DOMAIN list}

\* the default configuration: time_based_categories is False (line 76),
\* enable_animations is True (line 66)
NoOverlay ==
    [time_based_categories |-> FALSE, time_rules |-> DefaultTimeRules,
     enable_animations |-> TRUE]

NoVocab == [files |-> <<>>, loaded |-> FALSE, exc |-> "none"]

\* no select_next_word call yet; fading: the words whose fade-out animation
\* runs, each to be shown by _finish_transition when it ends
NoPick ==
    [called |-> FALSE, history |-> EmptyHistory, t |-> 0, current_id |-> None,
     enabled_categories |-> <<>>, draw |-> 0, weighted |-> FALSE, ret |-> None,
     fading |-> <<>>]

WIdle ==
    /\ vocab = NoVocab
    /\ words = <<>>
    /\ config = <<>>
    /\ current_word_id = None
    /\ pick = NoPick
    /\ toaster = FALSE
    /\ threads = <<>>
    /\ notified = <<>>
    /\ overlay = NoOverlay
    /\ hash_order = {}

HIdle ==
    /\ history = EmptyHistory
    /\ save_counter = 0
    /\ fs = NoDir
    /\ hcall = NoHCall
    /\ since_write = 0
    /\ hops = NoOps
    /\ sv = NoSave

----------------------------------------------------------------------------
(* The state machine *)

\* call before the first record_word_viewed call of the run
NoCall ==
    [t1 |-> 0, t2 |-> 0, t3 |-> 0, pre |-> DefaultData, post |-> DefaultData,
     new |-> <<>>, ret |-> None]

\* 1 when an irregular event happens
Upset(cond) == IF cond THEN 1 ELSE 0

\* GamificationTracker(data_file): construction loads the file
Init ==
    /\ now = Boot
    /\ clock = Boot * 24
    /\ \E r \in EarlierRuns :
          gam_file = IF r.days = 0
                     THEN [state |-> "missing", doc |-> DefaultData]
                     ELSE [state |-> "written", doc |-> Played(Boot, r.days, r.per_day)]
    /\ data = _load_data(gam_file)
    /\ call = NoCall
    /\ log = <<>>
    /\ upsets = 0
    /\ HIdle
    /\ WIdle

\* midnight passes
Midnight ==
    /\ now + 1 \in Days
    /\ now' = now + 1
    /\ clock' = (now + 1) * 24
    /\ UNCHANGED <<data, gam_file, call, log, upsets>>
    /\ UNCHANGED <<history, save_counter, fs, hcall, since_write, hops, sv>>
    /\ UNCHANGED wvars

\* the system clock is set back a day
ClockSetBack ==
    /\ upsets < MaxUpsets
    /\ now - 1 \in Days
    /\ now' = now - 1
    /\ clock' = (now - 1) * 24
    /\ upsets' = upsets + 1
    /\ UNCHANGED <<data, gam_file, call, log>>
    /\ UNCHANGED <<history, save_counter, fs, hcall, since_write, hops, sv>>
    /\ UNCHANGED wvars

\* MainWindow._update_word calls record_word_viewed(); the clock readings t2
\* and t3 come at or after the first one
RecordWordViewed ==
    /\ Len(log) < MaxCalls
    /\ \E t2 \in {now, now + 1} \cap Days, t3 \in {now, now + 1} \cap Days, io \in IoOutcomes :
          /\ t2 <= t3
          /\ upsets + Upset(t3 # now) + Upset(io # "ok") <= MaxUpsets
          /\ upsets' = upsets + Upset(t3 # now) + Upset(io # "ok")
          /\ LET r == record_word_viewed(data, now, t2, t3)
             IN  /\ data' = r.data
                 /\ gam_file' = save_data(gam_file, r.data, io)
                 /\ call' = [t1 |-> now, t2 |-> t2, t3 |-> t3, pre |-> data,
                             post |-> r.data, new |-> r.new, ret |-> r.ret]
                 /\ log' = Append(log, [t1 |-> now, t2 |-> t2,
                                        first |-> data.last_activity_date = None,
                                        current_streak |-> r.data.current_streak,
                                        longest_streak |-> r.data.longest_streak,
                                        total_study_days |-> r.data.total_study_days])
          /\ now' = t3
          /\ clock' = IF t3 = now THEN clock ELSE t3 * 24
    /\ UNCHANGED <<history, save_counter, fs, hcall, since_write, hops, sv>>
    /\ UNCHANGED wvars

\* set_daily_goal(goal)
SetDailyGoal ==
    /\ \E goal \in Goals, io \in IoOutcomes :
          /\ upsets + 1 + Upset(io # "ok") <= MaxUpsets
          /\ upsets' = upsets + 1 + Upset(io # "ok")
          /\ data' = set_daily_goal(data, goal)
          /\ gam_file' = save_data(gam_file, data', io)
    /\ UNCHANGED <<now, call, log>>
    /\ UNCHANGED hvars
    /\ UNCHANGED wvars

Next == Midnight \/ ClockSetBack \/ RecordWordViewed \/ SetDailyGoal

Spec == Init /\ [][Next]_vars

----------------------------------------------------------------------------
(* Vocabulary of the properties *)

\* a record_word_viewed call has been made in this run: call is the latest one.
\* Every call of the run is the latest call in the state it leaves, so what
\* holds of the latest call in every reachable state holds of every call.
Called == log # <<>>

\* the date on which call c started (today of line 54)
Today(c) == Strftime(c.t1)

\* call c started two or more days after the last activity before it (the
\* YYYYMMDD numbers of dates are in the order of the dates)
GapOfTwoOrMore(c) ==
    /\ c.pre.last_activity_date # None
    /\ c.pre.last_activity_date < Strftime(c.t1 - 1)

\* the identifiers of a list
Ids(list) == {list[i] : i \in DOMAIN list}

\* the identifiers that call c added to the achievements
Added(c) == Ids(c.post.achievements) \ Ids(c.pre.achievements)

\* no identifier occurs twice in the list
NoDuplicates(list) == \A i, j \in DOMAIN list : list[i] = list[j] => i = j

----------------------------------------------------------------------------
(* C1 *)

\* C1: in every reachable state longest_streak >= current_streak, and both
\* are non-negative, whatever the dates of the record_word_viewed calls.
C1_LongestAtLeastCurrent ==
    /\ data.current_streak >= 0
    /\ data.longest_streak >= 0
    /\ data.longest_streak >= data.current_streak
    /\ Called => LET c == call IN c.post.longest_streak >= c.post.current_streak

\* a call has broken a streak: the current streak is below the longest one
C1_Witness ==
    /\ log # <<>>
    /\ data.current_streak >= 1
    /\ data.longest_streak > data.current_streak

----------------------------------------------------------------------------
(* C2 *)

\* C2: a call on a date whose previous calendar day is last_activity_date
\* (the clock reading of line 84 falling on that same date) increases
\* current_streak by exactly 1 and total_study_days by exactly 1.
C2_ConsecutiveDay ==
    Called => LET c == call IN
        (c.t2 = c.t1 /\ c.pre.last_activity_date = Strftime(c.t1 - 1))
        => /\ c.post.current_streak = c.pre.current_streak + 1
           /\ c.post.total_study_days = c.pre.total_study_days + 1

\* a call on the day after the last activity has extended a streak
C2_Witness ==
    Called /\ LET c == call IN
        /\ c.t2 = c.t1
        /\ c.pre.last_activity_date = Strftime(c.t1 - 1)
        /\ c.pre.current_streak >= 1
        /\ c.post.current_streak = c.pre.current_streak + 1

----------------------------------------------------------------------------
(* C3 *)

\* C3: a call on a date two or more days after last_activity_date sets
\* current_streak to exactly 1, increases total_study_days by exactly 1 and
\* keeps longest_streak.
C3_StreakBroken ==
    Called => LET c == call IN
        GapOfTwoOrMore(c)
        => /\ c.post.current_streak = 1
           /\ c.post.total_study_days = c.pre.total_study_days + 1
           /\ c.post.longest_streak = c.pre.longest_streak

\* a call after a gap has reset a streak that was longer than 1
C3_Witness ==
    Called /\ LET c == call IN
        /\ GapOfTwoOrMore(c)
        /\ c.pre.current_streak >= 2
        /\ c.post.current_streak = 1

----------------------------------------------------------------------------
(* C4 *)

\* C4: a call on the date of last_activity_date changes nothing but
\* daily_progress[today], total_words_learned and possibly achievements:
\* current_streak, longest_streak, total_study_days, daily_goal,
\* last_activity_date and the progress of the other dates are as before.
C4_SameDayFrame ==
    Called => LET c == call IN
        c.pre.last_activity_date = Today(c)
        => /\ c.post.current_streak = c.pre.current_streak
           /\ c.post.longest_streak = c.pre.longest_streak
           /\ c.post.total_study_days = c.pre.total_study_days
           /\ c.post = [c.pre EXCEPT !.daily_progress[Today(c)] = @ + 1,
                                     !.total_words_learned = @ + 1,
                                     !.achievements = c.post.achievements]

\* a second call on one day has counted a word and left the streak alone
C4_Witness ==
    Called /\ LET c == call IN
        /\ c.pre.last_activity_date = Today(c)
        /\ c.pre.current_streak >= 1
        /\ c.post.total_words_learned = c.pre.total_words_learned + 1

----------------------------------------------------------------------------
(* C5 *)

\* the first n calls of the run follow the scenario: from a state with no
\* activity yet, calls on day 1, day 1, day 2 and day 4, none of them
\* straddling midnight before the streak is updated
Scenario(n) ==
    /\ Len(log) >= n
    /\ log[1].first
    /\ \A i \in 1 .. n : log[i].t2 = log[i].t1
    /\ n >= 2 => log[2].t1 = log[1].t1
    /\ n >= 3 => log[3].t1 = log[1].t1 + 1
    /\ n >= 4 => log[4].t1 = log[1].t1 + 3

\* C5: from the default state, activity on day 1, again on day 1, on day 2 and
\* (none on day 3) on day 4 gives current_streak 1, 1, 2, 1, longest_streak 2
\* after day 2 and still 2 after day 4, and total_study_days 1 after the first
\* activity.
C5_StreakScenario ==
    /\ Scenario(1) => log[1].current_streak = 1 /\ log[1].total_study_days = 1
    /\ Scenario(2) => log[2].current_streak = 1
    /\ Scenario(3) => log[3].current_streak = 2 /\ log[3].longest_streak = 2
    /\ Scenario(4) => log[4].current_streak = 1 /\ log[4].longest_streak = 2

\* the whole scenario has been played
C5_Witness ==
    /\ Scenario(4)
    /\ Len(log) = 4
    /\ data.current_streak = 1
    /\ data.longest_streak = 2
    /\ data.total_study_days = 3

----------------------------------------------------------------------------
(* C6 *)

\* C6: every call, whatever the dates, increases daily_progress[today] by
\* exactly 1 (a date not yet in the mapping counting as 0) and
\* total_words_learned by exactly 1, sets last_activity_date to today and
\* leaves the progress of every other date as it was.  (record_word_viewed
\* takes no count: every call is the call with the default count 1.)
C6_CountsOneWord ==
    Called => LET c == call IN
        /\ c.post.daily_progress[Today(c)] = DictGet(c.pre.daily_progress, Today(c), 0) + 1
        /\ c.post.total_words_learned = c.pre.total_words_learned + 1
        /\ c.post.last_activity_date = Today(c)
        /\ DOMAIN c.post.daily_progress = DOMAIN c.pre.daily_progress \cup {Today(c)}
        /\ \A d \in DOMAIN c.pre.daily_progress \ {Today(c)} :
              c.post.daily_progress[d] = c.pre.daily_progress[d]

\* a call has counted a word on a date that had progress, next to another date
C6_Witness ==
    Called /\ LET c == call IN
        /\ Today(c) \in DOMAIN c.pre.daily_progress
        /\ DOMAIN c.pre.daily_progress \ {Today(c)} # {}
        /\ c.post.daily_progress[Today(c)] = c.pre.daily_progress[Today(c)] + 1

----------------------------------------------------------------------------
(* C7 *)

\* no step removes or reorders an achievement: the list only grows at its end
AchievementsKept ==
    /\ Len(data'.achievements) >= Len(data.achievements)
    /\ SubSeq(data'.achievements, 1, Len(data.achievements)) = data.achievements

\* C7: achievement unlocking is idempotent: no identifier occurs twice in the
\* achievements, a call never reports an identifier that was present before
\* it, evaluating again on the state the call left adds and reports nothing,
\* and no step removes an identifier.
C7_Idempotent ==
    /\ [](/\ NoDuplicates(data.achievements)
          /\ Called => LET c == call IN
                /\ Ids(c.new) \cap Ids(c.pre.achievements) = {}
                /\ Ids(c.pre.achievements) \subseteq Ids(c.post.achievements)
                /\ _check_achievements(c.post, c.t3) = [data |-> c.post, ret |-> <<>>])
    /\ [][AchievementsKept]_vars

\* a call has unlocked an achievement next to earlier ones
C7_Witness ==
    Called /\ LET c == call IN c.new # <<>> /\ c.pre.achievements # <<>>

----------------------------------------------------------------------------
(* C8 *)

\* the identifier of the t-day streak achievement
StreakId(t) ==
    IF t = 7 THEN Id("7_day_streak")
    ELSE IF t = 30 THEN Id("30_day_streak") ELSE Id("100_day_streak")

\* the identifier of the t-words achievement
WordsId(t) ==
    IF t = 100 THEN Id("100_words")
    ELSE IF t = 500 THEN Id("500_words") ELSE Id("1000_words")

\* C8: in every state reached from the default state, the t-day streak
\* achievement (t in 7, 30, 100) is in the achievements exactly when
\* longest_streak >= t, and the t-words achievement (t in 100, 500, 1000)
\* exactly when total_words_learned >= t.
C8_Thresholds ==
    /\ \A t \in {7, 30, 100} :
          In(StreakId(t), data.achievements) <=> data.longest_streak >= t
    /\ \A t \in {100, 500, 1000} :
          In(WordsId(t), data.achievements) <=> data.total_words_learned >= t

\* calls of this run have just reached a streak threshold and a words threshold
C8_Witness ==
    /\ Called /\ LET c == call IN In(StreakId(100), c.new) /\ c.post.longest_streak = 100
    /\ Called /\ LET c == call IN In(WordsId(100), c.new) /\ c.post.total_words_learned = 100

----------------------------------------------------------------------------
(* C9 *)

\* C9 as claimed: a call on date d unlocks the daily-goal achievement of d
\* exactly when it leaves daily_progress[d] equal to daily_goal (the identifier
\* being absent before); a call that leaves it greater does not unlock it.
C9_AsClaimed ==
    Called => LET c == call IN
        c.t3 = c.t1
        => (In(DailyGoalId(Today(c)), c.new)
              <=> /\ c.post.daily_progress[Today(c)] = c.post.daily_goal
                  /\ NotIn(DailyGoalId(Today(c)), c.pre.achievements))

\* C9 as amended: a call on date d unlocks the daily-goal achievement of d
\* exactly when it leaves daily_progress[d] >= daily_goal while the identifier
\* of d was absent, so also when the progress is already above the goal; it
\* unlocks no daily-goal achievement of another date, and the achievements
\* hold at most one daily-goal identifier per date.
C9_GoalReachedOrPassed ==
    /\ Called => LET c == call IN
          /\ c.t3 = c.t1
             => (In(DailyGoalId(Today(c)), c.new)
                   <=> /\ c.post.daily_progress[Today(c)] >= c.post.daily_goal
                       /\ NotIn(DailyGoalId(Today(c)), c.pre.achievements))
          /\ \A id \in Added(c) : id.name = "daily_goal" => id.date = Strftime(c.t3)
    /\ \A i, j \in DOMAIN data.achievements :
          (/\ data.achievements[i].name = "daily_goal"
           /\ data.achievements[j].name = "daily_goal"
           /\ data.achievements[i].date = data.achievements[j].date) => i = j

\* a call has unlocked the daily goal of its date with the progress above the goal
C9_Witness ==
    Called /\ LET c == call IN
        /\ c.t3 = c.t1
        /\ c.post.daily_progress[Today(c)] > c.post.daily_goal
        /\ In(DailyGoalId(Today(c)), c.new)

----------------------------------------------------------------------------
(* C10 *)

\* what the caller of call c received, as a set of identifiers (None: nothing)
Returned(c) == IF c.ret = None THEN {} ELSE Ids(c.ret)

\* C10 as claimed: every call returns to its caller exactly the identifiers
\* that it added to the achievements.
C10_ReturnsNewlyUnlocked == Called => LET c == call IN Returned(c) = Added(c)

----------------------------------------------------------------------------
(* The state machine of the HistoryTracker *)

\* the variables of the GamificationTracker while it is not running
GIdle ==
    /\ data = DefaultData
    /\ gam_file = [state |-> "missing", doc |-> DefaultData]
    /\ call = NoCall
    /\ log = <<>>
    /\ upsets = 0

\* the word ids passed to record_display
ShownWords == {1}

\* the word ids passed to mark_known and mark_difficult
MarkedWords == {1, 3}

\* the values given to cleanup_old_entries
MaxEntriesInputs == {1, 3}

\* the tracker of the current state
Tracker == [history |-> history, save_counter |-> save_counter, fs |-> fs]

\* the application is running
Running == hcall.op # "_exit_app"

\* the state after a call that left the tracker r; a write fails only in a
\* call that writes
Leaves(r, op, word_id, max_entries, fault) ==
    /\ fault # "none" => r.saved /\ hops.faults < MaxFaults
    /\ history' = r.history
    /\ save_counter' = r.save_counter
    /\ fs' = r.fs
    /\ hcall' = [op |-> op, word_id |-> word_id, max_entries |-> max_entries,
                 exc |-> r.exc, saved |-> r.saved, ret |-> r.ret]
    /\ hops' = [shows |-> hops.shows + Upset(op = "record_display"),
                others |-> hops.others + Upset(op # "record_display"),
                faults |-> hops.faults + Upset(fault # "none")]
    /\ since_write' = IF r.saved THEN 0
                      ELSE IF op = "record_display" THEN since_write + 1
                      ELSE since_write

\* MainWindow(): ensure_data_files_exist(), then the tracker is constructed
\* on the directory an earlier run left
HInit ==
    /\ clock = HStart
    /\ now = HStart \div 24
    /\ fs \in {ensure_data_files_exist(dir) : dir \in StartDirs}
    /\ history = HistoryTracker(fs).history
    /\ save_counter = HistoryTracker(fs).save_counter
    /\ hcall = NoHCall
    /\ since_write = 0
    /\ hops = NoOps
    /\ sv = NoSave
    /\ GIdle
    /\ WIdle

\* an hour passes
HTick ==
    /\ hops.others < MaxOthers
    /\ clock' = clock + 1
    /\ now' = (clock + 1) \div 24
    /\ hops' = [hops EXCEPT !.others = @ + 1]
    /\ UNCHANGED <<history, save_counter, fs, hcall, since_write, sv>>
    /\ UNCHANGED <<data, gam_file, call, log, upsets>>
    /\ UNCHANGED wvars

\* MainWindow._update_word calls record_display(word['id'])
RecordDisplay ==
    /\ Running
    /\ hops.shows < MaxShows
    /\ \E word_id \in ShownWords, fault \in SaveFaults :
          Leaves(record_display(Tracker, word_id, clock, clock, fault),
                 "record_display", word_id, 0, fault)
    /\ UNCHANGED <<clock, sv>>
    /\ UNCHANGED gvars
    /\ UNCHANGED wvars

\* mark_known(word_id)
MarkKnown ==
    /\ Running
    /\ hops.others < MaxOthers
    /\ \E word_id \in MarkedWords, fault \in SaveFaults :
          Leaves(mark_known(Tracker, word_id, clock, fault), "mark_known", word_id, 0, fault)
    /\ UNCHANGED <<clock, sv>>
    /\ UNCHANGED gvars
    /\ UNCHANGED wvars

\* mark_difficult(word_id)
MarkDifficult ==
    /\ Running
    /\ hops.others < MaxOthers
    /\ \E word_id \in MarkedWords, fault \in SaveFaults :
          Leaves(mark_difficult(Tracker, word_id, clock, fault),
                 "mark_difficult", word_id, 0, fault)
    /\ UNCHANGED <<clock, sv>>
    /\ UNCHANGED gvars
    /\ UNCHANGED wvars

\* cleanup_old_entries(max_entries)
CleanupOldEntries ==
    /\ Running
    /\ hops.others < MaxOthers
    /\ \E max_entries \in MaxEntriesInputs, fault \in SaveFaults :
          Leaves(cleanup_old_entries(Tracker, max_entries, fault),
                 "cleanup_old_entries", 0, max_entries, fault)
    /\ UNCHANGED <<clock, sv>>
    /\ UNCHANGED gvars
    /\ UNCHANGED wvars

\* MainWindow.closeEvent (the window is closed, or Exit of its context
\* menu): save_history(force=True); the application goes on without a window
\* (main.py, setQuitOnLastWindowClosed(False)) and its timer keeps firing
CloseEvent ==
    /\ Running
    /\ hops.others < MaxOthers
    /\ \E fault \in SaveFaults :
          Leaves(save_history(Tracker, TRUE, fault), "closeEvent", 0, 0, fault)
    /\ UNCHANGED <<clock, sv>>
    /\ UNCHANGED gvars
    /\ UNCHANGED wvars

\* SystemTray._exit_app (Exit of the tray menu): parent_window.close(), which
\* runs closeEvent, then QApplication.quit(): the application ends
ExitApp ==
    /\ Running
    /\ hops.others < MaxOthers
    /\ \E fault \in SaveFaults :
          Leaves(save_history(Tracker, TRUE, fault), "_exit_app", 0, 0, fault)
    /\ UNCHANGED <<clock, sv>>
    /\ UNCHANGED gvars
    /\ UNCHANGED wvars

\* the application is started again: MainWindow() runs
\* ensure_data_files_exist() and constructs a new tracker
Start ==
    /\ ~ Running
    /\ fs' = ensure_data_files_exist(fs)
    /\ history' = HistoryTracker(fs').history
    /\ save_counter' = HistoryTracker(fs').save_counter
    /\ hcall' = [NoHCall EXCEPT !.op = "start"]
    /\ since_write' = 0
    /\ UNCHANGED <<clock, hops, sv>>
    /\ UNCHANGED gvars
    /\ UNCHANGED wvars

HNext ==
    \/ HTick
    \/ RecordDisplay
    \/ MarkKnown
    \/ MarkDifficult
    \/ CleanupOldEntries
    \/ CloseEvent
    \/ ExitApp
    \/ Start

SpecHistory == HInit /\ [][HNext]_vars

----------------------------------------------------------------------------
(* Vocabulary of the properties of the HistoryTracker *)

\* the word ids that can have a record: those of the earlier runs and of the calls
AllWords == 1 .. 5

\* this step is a call of the method op (a call counts in hops and leaves the clock)
CallOf(op) == hcall'.op = op /\ hops' # hops /\ clock' = clock

\* the record of the word is the same before and after the step
SameRecord(word_id) ==
    /\ NoHistory(history, word_id) <=> NoHistory(history', word_id)
    /\ ~ NoHistory(history, word_id) =>
          Item(history', Str(word_id)) = Item(history, Str(word_id))

\* the marks of the word are the same before and after the step
SameMarks(word_id) ==
    /\ is_marked_known(history', word_id) = is_marked_known(history, word_id)
    /\ is_marked_difficult(history', word_id) = is_marked_difficult(history, word_id)

\* history.json holds exactly the history in memory
FileIsMemory == fs.target = WrittenFile(history) /\ _load_history(fs) = history

----------------------------------------------------------------------------
(* C11 *)

\* C11: no word is ever marked known and marked difficult at once; after
\* mark_known(id) the word is known and not difficult, after mark_difficult(id)
\* it is difficult and not known.
C11_MarksExclusive ==
    /\ \A word_id \in AllWords :
          ~ (is_marked_known(history, word_id) /\ is_marked_difficult(history, word_id))
    /\ hcall.op = "mark_known" =>
          /\ is_marked_known(history, hcall.word_id)
          /\ ~ is_marked_difficult(history, hcall.word_id)
    /\ hcall.op = "mark_difficult" =>
          /\ is_marked_difficult(history, hcall.word_id)
          /\ ~ is_marked_known(history, hcall.word_id)

\* mark_known has run on a word that was marked difficult: the write failed,
\* so history.json still holds the old mark
C11_Witness ==
    /\ hcall.op = "mark_known"
    /\ is_marked_known(history, hcall.word_id)
    /\ is_marked_difficult(_load_history(fs), hcall.word_id)

----------------------------------------------------------------------------
(* C12 *)

\* C12 as claimed: across every call, cleanup_old_entries included,
\* get_times_shown(id) never decreases.
C12_AsClaimed ==
    [][hcall'.op # "start" =>
          \A word_id \in AllWords :
              get_times_shown(history', word_id) >= get_times_shown(history, word_id)]_vars

\* C12 as amended: get_times_shown(id) never decreases across record_display,
\* mark_known and mark_difficult, nor across a cleanup_old_entries that keeps the
\* record of id; a cleanup_old_entries that discards the record leaves
\* get_times_shown(id) = 0.
C12_NeverDecreasesWhileKept ==
    [][hcall'.op # "start" =>
          \A word_id \in AllWords :
              \/ get_times_shown(history', word_id) >= get_times_shown(history, word_id)
              \/ /\ CallOf("cleanup_old_entries")
                 /\ NoHistory(history', word_id)
                 /\ get_times_shown(history', word_id) = 0]_vars

\* cleanup_old_entries has discarded the record of word 1 and kept that of
\* word 5 with its count
C12_Witness ==
    /\ hcall.op = "cleanup_old_entries"
    /\ hcall.saved
    /\ NoHistory(history, 1)
    /\ get_times_shown(history, 5) = 1

----------------------------------------------------------------------------
(* C13 *)

\* C13: record_display(id) leaves a record for id whose times_shown is one more
\* than before (0 when there was no record) and whose last_shown is the time of
\* the call; the records of the other words and the marks of id are as before.
C13_RecordDisplay ==
    [][CallOf("record_display") =>
          LET word_id == hcall'.word_id
          IN  /\ ~ NoHistory(history', word_id)
              /\ get_times_shown(history', word_id) = get_times_shown(history, word_id) + 1
              /\ Item(history', Str(word_id)).last_shown = Isoformat(clock)
              /\ \A other \in AllWords \ {word_id} : SameRecord(other)
              /\ SameMarks(word_id)]_vars

\* record_display has run on a marked word that had a record, next to the
\* records of other words
C13_Witness ==
    /\ hcall.op = "record_display"
    /\ get_times_shown(history, hcall.word_id) = 2
    /\ is_marked_difficult(history, hcall.word_id)
    /\ ~ NoHistory(history, 3)

----------------------------------------------------------------------------
(* C14 *)

\* a call that asks for an immediate write: a mark, the close of the window, a
\* cleanup that discards records
ForcedFlush ==
    \/ CallOf("mark_known")
    \/ CallOf("mark_difficult")
    \/ CallOf("closeEvent")
    \/ CallOf("_exit_app")
    \/ CallOf("cleanup_old_entries") /\ history' # history

\* C14: while no write fails, a record_display call writes history.json exactly
\* when it is the 5th record_display call since the file was last written (or
\* since start-up), and the file then holds the history in memory; a forced flush
\* writes at once and the count starts again at zero.
C14_Debounce ==
    [][hops'.faults = 0 =>
          /\ CallOf("record_display") =>
                /\ hcall'.saved <=> since_write + 1 = 5
                /\ hcall'.saved => FileIsMemory'
                /\ ~ hcall'.saved => fs' = fs
          /\ ForcedFlush =>
                /\ hcall'.saved
                /\ FileIsMemory'
                /\ since_write' = 0
                /\ save_counter' = 0]_vars

\* the 10th record_display call in a row has written the file
C14_Witness ==
    /\ hcall.op = "record_display"
    /\ hcall.saved
    /\ hops = [shows |-> 10, others |-> 0, faults |-> 0]
    /\ FileIsMemory

----------------------------------------------------------------------------
(* C15 *)

\* C15: after a mark_known or mark_difficult call whose write did not fail,
\* history.json holds the whole history in memory.
C15_MarkIsDurable ==
    (/\ hcall.op \in {"mark_known", "mark_difficult"}
     /\ hcall.exc = "none"
     /\ hcall.ret # "False")
    => FileIsMemory

\* mark_known has written a history with displays that the debounce had not
\* yet written
C15_Witness ==
    /\ hcall.op = "mark_known"
    /\ hcall.ret = "True"
    /\ hops.shows \in 1 .. 4
    /\ get_times_shown(history, 1) >= 1
    /\ is_marked_known(history, hcall.word_id)
    /\ FileIsMemory

----------------------------------------------------------------------------
(* C16 *)

\* C16: a record_display, mark_known or mark_difficult call for a word without a
\* record creates the record, and returns when no write fails; after a bare mark
\* the record has times_shown 0 and last_shown None, so get_times_shown is 0
\* and get_hours_since_shown is None.
C16_UnknownIdAdopted ==
    [][\A op \in {"record_display", "mark_known", "mark_difficult"} :
          (CallOf(op) /\ NoHistory(history, hcall'.word_id)) =>
              LET word_id == hcall'.word_id
              IN  /\ ~ NoHistory(history', word_id)
                  /\ hops'.faults = hops.faults => hcall'.exc = "none"
                  /\ op = "record_display" => get_times_shown(history', word_id) = 1
                  /\ op # "record_display" =>
                        /\ get_times_shown(history', word_id) = 0
                        /\ Item(history', Str(word_id)).last_shown = None
                        /\ get_hours_since_shown(history', word_id, clock).none]_vars

\* mark_known has created the only record of the history
C16_Witness ==
    /\ hcall.op = "mark_known"
    /\ hcall.exc = "none"
    /\ Len(history) = 1
    /\ ~ NoHistory(history, hcall.word_id)
    /\ get_times_shown(history, hcall.word_id) = 0
    /\ get_hours_since_shown(history, hcall.word_id, clock).none

----------------------------------------------------------------------------
(* C17 *)

\* the time a record was last shown, None counting as never
LastShown(item) == Field(item.value, "last_shown", None)

\* cleanup_old_entries has left the max_entries most recently shown records
KeepsMostRecent(max_entries) ==
    /\ Len(history') = (IF Len(history) < max_entries THEN Len(history) ELSE max_entries)
    /\ \A i \in DOMAIN history' : HasKey(history, history'[i].key)
    /\ \A i \in DOMAIN history', j \in DOMAIN history :
          ~ HasKey(history', history[j].key) =>
              LastShown(history'[i]) >= LastShown(history[j])
    /\ Len(history) <= max_entries =>
          /\ history' = history
          /\ fs' = fs
          /\ ~ hcall'.saved

\* C17: after cleanup_old_entries(max_entries) on n records the history holds
\* min(n, max_entries) records, each shown at least as recently as every
\* discarded one; with n <= max_entries nothing changes and nothing is written.
C17_CleanupKeepsMostRecent ==
    [][CallOf("cleanup_old_entries") => KeepsMostRecent(hcall'.max_entries)]_vars

----------------------------------------------------------------------------
(* C18 *)

\* C18: cleanup_old_entries on more than max_entries records, some of them with
\* last_shown None, returns without an exception, discards the records with
\* last_shown None before any other and ends with a forced write.
C18_CleanupWithNullLastShown ==
    [][(/\ CallOf("cleanup_old_entries")
        /\ Len(history) > hcall'.max_entries
        /\ \E j \in DOMAIN history : LastShown(history[j]) = None)
       => /\ hcall'.exc = "none"
          /\ KeepsMostRecent(hcall'.max_entries)
          /\ hcall'.saved]_vars

----------------------------------------------------------------------------
(* The state machine of save_json_atomic, step by step *)

\* a dict with a value that json.dump cannot encode, such as a set
Unserialisable == <<[key |-> "1", value |-> [object |-> "set"]]>>

\* the dicts given to save_json_atomic
SaveInputs ==
    {EmptyHistory,
     ShownUpTo(NoDir, 1, HStart).history,
     mark_known(ShownUpTo(NoDir, 2, HStart), 3, HStart, "none").history,
     Unserialisable}

SInit ==
    /\ fs = NoDir
    /\ sv = NoSave
    /\ clock = HStart
    /\ now = HStart \div 24
    /\ history = EmptyHistory
    /\ save_counter = 0
    /\ hcall = NoHCall
    /\ since_write = 0
    /\ hops = NoOps
    /\ GIdle
    /\ WIdle

\* save_json_atomic(filepath, d) is called
SaveBegin ==
    /\ sv.live = "idle"
    /\ sv.saves < MaxSaves
    /\ \E d \in SaveInputs :
          sv' = [sv EXCEPT !.live = "running", !.p = SaveCall(fs), !.d = d,
                           !.before = fs.target, !.saves = @ + 1]
    /\ UNCHANGED <<clock, history, save_counter, fs, hcall, since_write, hops>>
    /\ UNCHANGED gvars
    /\ UNCHANGED wvars

\* the call takes its next step; the system call of the step may fail
SaveStep ==
    /\ sv.live = "running"
    /\ ~ SaveOver(sv.p)
    /\ \E failing \in BOOLEAN :
          /\ failing => sv.p.pc \in SaveSteps
          /\ sv' = [sv EXCEPT !.p = save_step(sv.p, sv.d, failing)]
    /\ fs' = sv'.p.fs
    /\ UNCHANGED <<clock, history, save_counter, hcall, since_write, hops>>
    /\ UNCHANGED gvars
    /\ UNCHANGED wvars

\* the call is over and its caller goes on
SaveEnd ==
    /\ sv.live = "running"
    /\ SaveOver(sv.p)
    /\ sv' = [sv EXCEPT !.live = "idle"]
    /\ UNCHANGED <<clock, history, save_counter, fs, hcall, since_write, hops>>
    /\ UNCHANGED gvars
    /\ UNCHANGED wvars

\* the process is killed during the call
Kill ==
    /\ sv.live = "running"
    /\ sv' = [sv EXCEPT !.live = "killed"]
    /\ UNCHANGED <<clock, history, save_counter, fs, hcall, since_write, hops>>
    /\ UNCHANGED gvars
    /\ UNCHANGED wvars

\* the program is started again and loads the file
Reload ==
    /\ sv.live = "killed"
    /\ sv' = [sv EXCEPT !.live = "idle", !.loaded = _load_history(fs)]
    /\ UNCHANGED <<clock, history, save_counter, fs, hcall, since_write, hops>>
    /\ UNCHANGED gvars
    /\ UNCHANGED wvars

SNext == SaveBegin \/ SaveStep \/ SaveEnd \/ Kill \/ Reload

SpecSave == SInit /\ [][SNext]_vars

----------------------------------------------------------------------------
(* C19 *)

\* C19: history.json never holds a partial document, and when the process is
\* killed at any step of save_json_atomic the file holds either what it held
\* when the call began or the whole new dict; the next load reads one of the two.
C19_AtomicWrite ==
    /\ fs.target.state # "torn"
    /\ sv.live = "killed" =>
          /\ fs.target = sv.before \/ fs.target = WrittenFile(sv.d)
          /\ _load_history(fs) \in {load_json_safe(sv.before).data, sv.d}

\* the process was killed after the write of history.json.tmp and before the
\* rename, while history.json held another history
C19_Witness ==
    /\ sv.live = "killed"
    /\ sv.p.pc = "replace"
    /\ fs.tmp = WrittenFile(sv.d)
    /\ sv.before.state = "written"
    /\ sv.before.doc # sv.d
    /\ fs.target = sv.before

----------------------------------------------------------------------------
(* C20 *)

\* C20: when save_json_atomic is over and has not written the new dict,
\* history.json holds what it held before and there is no history.json.tmp.
C20_FailedWriteLeavesNothing ==
    (sv.live = "running" /\ SaveOver(sv.p) /\ sv.p.ret # "True") =>
        /\ fs.target = sv.before
        /\ fs.tmp.state = "missing"

----------------------------------------------------------------------------
(* C21: an interrupted write of data/gamification.json (specification Spec) *)

\* C21: a save_data() that is cut short never corrupts gamification.json:
\* whenever a step changes the file, the next _load_data() reads either what
\* it read before the step or the whole new state.  save_data writes in place
\* (open(.., 'w') truncates, json.dump writes into the file), so a dump that
\* stops halfway, by a kill or by an error, leaves a prefix of the document.
C21_ProgressWriteNeverCorrupts ==
    [][gam_file' # gam_file =>
          _load_data(gam_file') \in {_load_data(gam_file), data'}]_vars

----------------------------------------------------------------------------
(* Construction from the files of an earlier run (specification SpecLoad):
   MainWindow() constructs HistoryTracker and GamificationTracker on
   whatever data/ holds, and the operations that follow work on what the
   constructors loaded *)

\* the number of operations after the construction
MaxLoadOps == 2

\* a history.json that parses to an object whose record of word 1 lacks
\* times_shown, last_shown and first_shown: {"1": {"marked_known": true}}
PartialHistory == <<[key |-> "1", value |-> [marked_known |-> TRUE]]>>

\* a gamification.json that parses to an object without most fields:
\* {"daily_goal": 5}
PartialData == [daily_goal |-> 5]

\* the data directories MainWindow() may find
LoadDirs ==
    {NoDir, MarkedStore,
     [dir |-> TRUE, target |-> TornFile, tmp |-> MissingFile],
     [dir |-> TRUE, target |-> UndecodableFile, tmp |-> MissingFile],
     [dir |-> TRUE, target |-> WrittenFile(PartialHistory), tmp |-> MissingFile]}

\* the gamification.json files MainWindow() may find
LoadFiles ==
    {[state |-> "missing", doc |-> DefaultData],
     [state |-> "torn", doc |-> DefaultData],
     [state |-> "written", doc |-> Played(Boot, 1, 1)],
     [state |-> "written", doc |-> PartialData]}

\* line 66, self.history[word_key]['times_shown'] += 1, raises KeyError when
\* the record of the word has no times_shown
record_display_raises(h, word_id) ==
    /\ HasKey(h, Str(word_id))
    /\ "times_shown" \notin DOMAIN Item(h, Str(word_id))

\* line 113, word_history['times_shown'] if word_history else 0, raises
\* KeyError when the record of the word is not empty and has no times_shown
get_times_shown_raises(h, word_id) ==
    /\ HasKey(h, Str(word_id))
    /\ DOMAIN Item(h, Str(word_id)) # {}
    /\ "times_shown" \notin DOMAIN Item(h, Str(word_id))

\* line 57, self.data['daily_progress'], the first subscript of
\* record_word_viewed, raises KeyError when the loaded object has no such field
record_word_viewed_raises(d) == "daily_progress" \notin DOMAIN d

\* line 139, self.data['daily_progress'].get(today, 0), likewise
get_daily_progress_raises(d) == "daily_progress" \notin DOMAIN d

\* the word ids of the operations
LoadWords == {1, 2}

\* MainWindow(): both trackers are constructed; hcall.exc is the exception
\* that HistoryTracker() raised, after which nothing else is constructed
LInit ==
    /\ fs \in {ensure_data_files_exist(dir) : dir \in LoadDirs}
    /\ history = HistoryTracker(fs).history
    /\ save_counter = HistoryTracker(fs).save_counter
    /\ gam_file \in LoadFiles
    /\ data = _load_data(gam_file)
    /\ hcall = [NoHCall EXCEPT !.op = "construct", !.exc = _load_history_exc(fs)]
    /\ clock = HStart
    /\ since_write = 0
    /\ hops = NoOps
    /\ sv = NoSave
    /\ now = HStart \div 24
    /\ call = NoCall
    /\ log = <<>>
    /\ upsets = 0
    /\ WIdle

\* an operation may follow while no exception has ended the program
LReady == hcall.exc = "none" /\ hops.others < MaxLoadOps

\* the call op(word_id) raised exc before it changed anything
LRaises(op, word_id, exc) ==
    /\ hcall' = [NoHCall EXCEPT !.op = op, !.word_id = word_id, !.exc = exc]
    /\ hops' = [hops EXCEPT !.others = @ + 1]
    /\ UNCHANGED <<history, save_counter, fs, data, gam_file>>

\* the call op(word_id) of the history tracker returned and left the tracker r
LHistoryLeaves(r, op, word_id) ==
    /\ history' = r.history
    /\ save_counter' = r.save_counter
    /\ fs' = r.fs
    /\ hcall' = [NoHCall EXCEPT !.op = op, !.word_id = word_id,
                                !.saved = r.saved, !.ret = r.ret]
    /\ hops' = [hops EXCEPT !.others = @ + 1]
    /\ UNCHANGED <<data, gam_file>>

\* record_display(word_id)
LRecordDisplay ==
    /\ LReady
    /\ \E word_id \in LoadWords :
          IF record_display_raises(history, word_id)
          THEN LRaises("record_display", word_id, "KeyError")
          ELSE LHistoryLeaves(record_display(Tracker, word_id, clock, clock, "none"),
                              "record_display", word_id)
    /\ UNCHANGED <<clock, since_write, sv, now, call, log, upsets>>
    /\ UNCHANGED wvars

\* mark_known(word_id) and mark_difficult(word_id)
LMark ==
    /\ LReady
    /\ \E word_id \in LoadWords :
          \/ LHistoryLeaves(mark_known(Tracker, word_id, clock, "none"),
                            "mark_known", word_id)
          \/ LHistoryLeaves(mark_difficult(Tracker, word_id, clock, "none"),
                            "mark_difficult", word_id)
    /\ UNCHANGED <<clock, since_write, sv, now, call, log, upsets>>
    /\ UNCHANGED wvars

\* get_times_shown(word_id)
LGetTimesShown ==
    /\ LReady
    /\ \E word_id \in LoadWords :
          IF get_times_shown_raises(history, word_id)
          THEN LRaises("get_times_shown", word_id, "KeyError")
          ELSE /\ hcall' = [NoHCall EXCEPT !.op = "get_times_shown", !.word_id = word_id]
               /\ hops' = [hops EXCEPT !.others = @ + 1]
               /\ UNCHANGED <<history, save_counter, fs, data, gam_file>>
    /\ UNCHANGED <<clock, since_write, sv, now, call, log, upsets>>
    /\ UNCHANGED wvars

\* record_word_viewed()
LRecordWordViewed ==
    /\ LReady
    /\ IF record_word_viewed_raises(data)
       THEN LRaises("record_word_viewed", 0, "KeyError")
       ELSE /\ data' = record_word_viewed(data, now, now, now).data
            /\ gam_file' = save_data(gam_file, data', "ok")
            /\ hcall' = [NoHCall EXCEPT !.op = "record_word_viewed"]
            /\ hops' = [hops EXCEPT !.others = @ + 1]
            /\ UNCHANGED <<history, save_counter, fs>>
    /\ UNCHANGED <<clock, since_write, sv, now, call, log, upsets>>
    /\ UNCHANGED wvars

\* get_daily_progress()
LGetDailyProgress ==
    /\ LReady
    /\ IF get_daily_progress_raises(data)
       THEN LRaises("get_daily_progress", 0, "KeyError")
       ELSE /\ hcall' = [NoHCall EXCEPT !.op = "get_daily_progress"]
            /\ hops' = [hops EXCEPT !.others = @ + 1]
            /\ UNCHANGED <<history, save_counter, fs, data, gam_file>>
    /\ UNCHANGED <<clock, since_write, sv, now, call, log, upsets>>
    /\ UNCHANGED wvars

\* set_daily_goal(goal)
LSetDailyGoal ==
    /\ LReady
    /\ \E goal \in Goals :
          /\ data' = set_daily_goal(data, goal)
          /\ gam_file' = save_data(gam_file, data', "ok")
    /\ hcall' = [NoHCall EXCEPT !.op = "set_daily_goal"]
    /\ hops' = [hops EXCEPT !.others = @ + 1]
    /\ UNCHANGED <<history, save_counter, fs>>
    /\ UNCHANGED <<clock, since_write, sv, now, call, log, upsets>>
    /\ UNCHANGED wvars

LNext ==
    \/ LRecordDisplay
    \/ LMark
    \/ LGetTimesShown
    \/ LRecordWordViewed
    \/ LGetDailyProgress
    \/ LSetDailyGoal

SpecLoad == LInit /\ [][LNext]_vars

----------------------------------------------------------------------------
(* C22 *)

\* every record of the history has the fields the tracker writes
WholeHistory(h) ==
    \A i \in DOMAIN h :
        {"times_shown", "last_shown", "first_shown"} \subseteq DOMAIN h[i].value

\* the progress state has the fields of the default state
WholeData(d) == DOMAIN DefaultData \subseteq DOMAIN d

\* C22: the trackers constructed on a missing, torn or structurally wrong
\* file hold the empty history, resp. the default progress state, and no
\* operation that follows raises.
C22_CorruptFilesAreHarmless ==
    /\ hcall.exc = "none"
    /\ hcall.op = "construct" =>
          /\ (fs.target.state # "written" \/ ~ WholeHistory(fs.target.doc))
                => history = EmptyHistory
          /\ (gam_file.state # "written" \/ ~ WholeData(gam_file.doc))
                => data = DefaultData

----------------------------------------------------------------------------
(* WordManager (word_manager.py): the weight of a word and the selection *)

\* a word of the vocabulary with a category
Word(id, category) ==
    [id |-> id, german |-> "Wort", english |-> "word", category |-> category]

\* w.get('category') in enabled_categories; a word without category gives
\* None, which no list of category names holds
CategoryIn(word, enabled_categories) ==
    "category" \in DOMAIN word /\ word.category \in Members(enabled_categories)

\* A weight is the fraction num / (10 * den): the code computes floats, the
\* model the exact value.  The weight 0.0:
ZeroWeight == [num |-> 0, den |-> 1]

\* weight > 0
Positive(weight) == weight.num > 0

\* v < w, by cross multiplication (the denominators are positive)
Less(v, w) == v.num * w.den < w.num * v.den

\* the hours that stand for "never shown" (line 99)
NeverShownHours == 1000

\* ten times the multiplier of lines 105-115
Multiplier10(h, word_id) ==
    IF get_times_shown(h, word_id) = 0 THEN 20
    ELSE IF is_marked_difficult(h, word_id) THEN 15
    ELSE IF is_marked_known(h, word_id) THEN 3
    ELSE 10

\* calculate_word_weight with the multipliers of known and difficult swapped
calculate_word_weight_swapped(word, h, current_id, t) ==
    IF current_id # None /\ word.id = current_id THEN ZeroWeight
    ELSE LET since == get_hours_since_shown(h, word.id, t)
             hours_since == IF since.none THEN NeverShownHours ELSE since.hours
             times_shown == get_times_shown(h, word.id)
             multiplier10 == IF times_shown = 0 THEN 20
                             ELSE IF is_marked_difficult(h, word.id) THEN 3
                             ELSE IF is_marked_known(h, word.id) THEN 15
                             ELSE 10
         IN  [num |-> (hours_since + 1) * (hours_since + 1) * multiplier10,
              den |-> times_shown + 1]

\* calculate_word_weight that takes a never shown word as shown just now
calculate_word_weight_no_sentinel(word, h, current_id, t) ==
    IF current_id # None /\ word.id = current_id THEN ZeroWeight
    ELSE LET since == get_hours_since_shown(h, word.id, t)
             hours_since == IF since.none THEN 0 ELSE since.hours
             times_shown == get_times_shown(h, word.id)
         IN  [num |-> (hours_since + 1) * (hours_since + 1) * Multiplier10(h, word.id),
              den |-> times_shown + 1]

\* calculate_word_weight(word, history_tracker, current_id) at clock reading t
calculate_word_weight(word, h, current_id, t) ==
    IF current_id # None /\ word.id = current_id THEN ZeroWeight
    ELSE LET since == get_hours_since_shown(h, word.id, t)
             hours_since == IF since.none THEN NeverShownHours ELSE since.hours
             times_shown == get_times_shown(h, word.id)
         IN  [num |-> (hours_since + 1) * (hours_since + 1) * Multiplier10(h, word.id),
              den |-> times_shown + 1]

\* lines 136-143: the words of the enabled categories, all words when the
\* list is None or empty, holds 'all', or matches no word
candidate_pool(ws, enabled_categories) ==
    LET filtered == IF enabled_categories # <<>> /\ "all" \notin Members(enabled_categories)
                    THEN SelectSeq(ws, LAMBDA w : CategoryIn(w, enabled_categories))
                    ELSE ws
    IN  IF filtered = <<>> THEN ws ELSE filtered

\* lines 146-154: the words of the pool with a positive weight, in pool order
Candidates(pool, h, current_id, t) ==
    SelectSeq(pool, LAMBDA w : Positive(calculate_word_weight(w, h, current_id, t)))

RECURSIVE Gcd(_, _)
Gcd(a, b) == IF b = 0 THEN a ELSE Gcd(b, a % b)

Lcm(a, b) == (a \div Gcd(a, b)) * b

RECURSIVE LcmOfDens(_)
LcmOfDens(weights) ==
    IF weights = <<>> THEN 1 ELSE Lcm(Head(weights).den, LcmOfDens(Tail(weights)))

\* the weights of the candidates as whole numbers of the unit 1 / (10 * LcmOfDens)
Scaled(weights) ==
    LET unit == LcmOfDens(weights)
    IN  [i \in DOMAIN weights |-> weights[i].num * (unit \div weights[i].den)]

\* the weights list of lines 146-154, in that unit
Weights(pool, h, current_id, t) ==
    LET candidates == Candidates(pool, h, current_id, t)
    IN  Scaled([i \in DOMAIN candidates |->
                   calculate_word_weight(candidates[i], h, current_id, t)])

\* itertools.accumulate(weights): the sum of the first i weights
RECURSIVE cum_weights(_, _)
cum_weights(weights, i) == IF i = 0 THEN 0 ELSE cum_weights(weights, i - 1) + weights[i]

\* the total of the weights
Total(weights) == cum_weights(weights, Len(weights))

\* random.choices that takes the first candidate whose cumulative weight
\* reaches the draw
choices_reaches(population, weights, draw) ==
    LET n == Len(population)
    IN  population[1 + Cardinality({i \in 1 .. (n - 1) : cum_weights(weights, i) < draw})]

\* random.choices(population, weights, k=1)[0] for the draw random() * total,
\* a number in [0, total): bisect(cum_weights, draw, 0, n - 1) counts the
\* cumulative weights of the first n - 1 candidates that do not exceed the draw.
\* The draw is given as the whole number of units below it; the cumulative
\* weights are whole, so they exceed the draw when they exceed that number.
choices(population, weights, draw) ==
    LET n == Len(population)
    IN  population[1 + Cardinality({i \in 1 .. (n - 1) : cum_weights(weights, i) <= draw})]

\* select_next_word that never falls back to the whole pool
select_next_word_no_fallback(ws, h, current_id, enabled_categories, t, draw) ==
    IF ws = <<>> THEN [none |-> TRUE, weighted |-> FALSE, word |-> Word(0, "")]
    ELSE LET pool == candidate_pool(ws, enabled_categories)
             candidates == Candidates(pool, h, current_id, t)
         IN  IF candidates = <<>>
             THEN [none |-> TRUE, weighted |-> FALSE, word |-> Word(0, "")]
             ELSE [none |-> FALSE, weighted |-> TRUE,
                   word |-> choices(candidates, Weights(pool, h, current_id, t), draw)]

\* select_next_word(history_tracker, current_id, enabled_categories) at
\* clock reading t.  draw is what the random generator gives: the weighted
\* draw of line 160 or, when no word has a positive weight, the index that
\* random.choice(candidate_pool) takes (line 157).
select_next_word(ws, h, current_id, enabled_categories, t, draw) ==
    IF ws = <<>> THEN [none |-> TRUE, weighted |-> FALSE, word |-> Word(0, "")]
    ELSE LET pool == candidate_pool(ws, enabled_categories)
             candidates == Candidates(pool, h, current_id, t)
         IN  IF candidates = <<>>
             THEN [none |-> FALSE, weighted |-> FALSE, word |-> pool[draw + 1]]
             ELSE [none |-> FALSE, weighted |-> TRUE,
                   word |-> choices(candidates, Weights(pool, h, current_id, t), draw)]

\* the draws explored: the first and the last draw of every candidate's
\* range of the weighted draw, or every index of random.choice
Draws(ws, h, current_id, enabled_categories, t) ==
    IF ws = <<>> THEN {0}
    ELSE LET pool == candidate_pool(ws, enabled_categories)
             weights == Weights(pool, h, current_id, t)
         IN  IF weights = <<>> THEN 0 .. (Len(pool) - 1)
             ELSE {cum_weights(weights, i - 1) : i \in DOMAIN weights}
                  \cup {cum_weights(weights, i) - 1 : i \in DOMAIN weights}

----------------------------------------------------------------------------
(* NotificationManager (notifications.py) and MainWindow._check_daily_goal *)

\* A notification is [title, words_count, streak, duration]: the title and
\* the numbers that the message text holds (None: the text does not name it).
\* show_daily_goal(words_count, streak): the message names the streak when it
\* is above 1
show_daily_goal(words_count, streak) ==
    [title |-> "Daily Goal Reached!", words_count |-> words_count,
     streak |-> IF streak > 1 THEN streak ELSE None, duration |-> 5]

\* show_streak_milestone(streak): the title ends with one, two or three flames
show_streak_milestone(streak) ==
    [title |-> IF streak >= 100 THEN "Streak Milestone! 3"
               ELSE IF streak >= 30 THEN "Streak Milestone! 2"
               ELSE "Streak Milestone! 1",
     words_count |-> None, streak |-> streak, duration |-> 7]

\* show_achievement(achievement_name)
show_achievement(achievement_name) ==
    [title |-> "Achievement Unlocked!", words_count |-> None, streak |-> None,
     duration |-> 7, achievement_name |-> achievement_name]

\* the streaks of line 319
Milestones == {7, 14, 30, 50, 100, 365}

\* _check_daily_goal() at clock reading t: the notifications it hands to
\* show_notification, in order
_check_daily_goal(d, t) ==
    LET progress == DictGet(d.daily_progress, Strftime(t), 0)
        goal == d.daily_goal
        streak == d.current_streak
    IN  (IF progress = goal THEN <<show_daily_goal(goal, streak)>> ELSE <<>>)
        \o (IF progress = 1 /\ streak \in Milestones
            THEN <<show_streak_milestone(streak)>> ELSE <<>>)

\* show_notification with a toaster: a thread is started for each
\* notification; its function _show holds title, message and duration
Started(running, notes, with_toaster) ==
    IF with_toaster
    THEN running \o [i \in DOMAIN notes |-> [pc |-> "started", note |-> notes[i]]]
    ELSE running

\* show_notification without toaster: the notification is printed (line 33)
Printed(out, notes, with_toaster) ==
    IF with_toaster THEN out
    ELSE out \o [i \in DOMAIN notes |-> [by |-> "print", note |-> notes[i]]]

\* _show that formats the message from the progress state at the time it runs
_show_live(thread, d, t) ==
    [data |-> d,
     toast |-> [by |-> "toast",
                note |-> [thread.note EXCEPT
                             !.words_count = IF @ = None THEN None
                                             ELSE DictGet(d.daily_progress, Strftime(t), 0),
                             !.streak = IF @ = None THEN None ELSE d.current_streak]]]

\* _show(), the function of the thread (lines 37-46), run while the progress
\* state is d and the clock reads t: the toast it shows, made of the title,
\* message and duration of the call that started it, and the progress state
\* it leaves, which it has no reference to
_show(thread, d, t) ==
    [data |-> d, toast |-> [by |-> "toast", note |-> thread.note]]

----------------------------------------------------------------------------
(* The time-of-day overlay of display_next_word (main_window.py lines 205-229) *)

\* the bucket of the hour (lines 214-221)
time_bucket(hour) ==
    IF 5 <= hour /\ hour < 12 THEN "morning"
    ELSE IF 12 <= hour /\ hour < 17 THEN "afternoon"
    ELSE IF 17 <= hour /\ hour < 22 THEN "evening"
    ELSE "night"

\* time_rules.get(bucket, [])
time_categories(time_rules, hour) ==
    IF time_bucket(hour) \in DOMAIN time_rules THEN time_rules[time_bucket(hour)] ELSE <<>>

\* set(enabled_categories) & set(time_categories), line 225
set_and(enabled_categories, categories) ==
    Members(enabled_categories) \cap Members(categories)

\* lines 223-225 are reached: the overlay is on, the bucket of the hour has
\* categories and the user's list is not the list ['all']
Intersects(enabled_categories, ov, hour) ==
    /\ ov.time_based_categories
    /\ time_categories(ov.time_rules, hour) # <<>>
    /\ enabled_categories # <<"all">>

\* the overlay that passes the intersection even when it is empty
overlay_categories_no_fallback(enabled_categories, ov, hour, listed) ==
    IF ~ ov.time_based_categories THEN enabled_categories
    ELSE LET categories == time_categories(ov.time_rules, hour)
         IN  IF categories # <<>> /\ enabled_categories # <<"all">>
             THEN listed
             ELSE IF categories # <<>> THEN categories
             ELSE enabled_categories

\* the list that display_next_word passes to select_next_word at the given
\* hour (lines 205-229); line 223 compares the list enabled_categories with
\* the list ['all'].  listed: the list that list(set & set) of line 225
\* makes, one of HashOrders(set_and(enabled_categories, categories))
overlay_categories(enabled_categories, ov, hour, listed) ==
    IF ~ ov.time_based_categories THEN enabled_categories
    ELSE LET categories == time_categories(ov.time_rules, hour)
         IN  IF categories # <<>> /\ enabled_categories # <<"all">>
             THEN IF listed # <<>> THEN listed ELSE categories
             ELSE IF categories # <<>> THEN categories
             ELSE enabled_categories

----------------------------------------------------------------------------
(* The display timer (specification SpecSelect): MainWindow.display_next_word
   selects a word every refresh interval and _update_word records it; between
   the ticks time passes and words are marked *)

\* ticks of the display timer explored per run, the events between them
\* included
MaxPicks == 2

\* the ticks and the events between them so far
WindowSteps == hops.shows + hops.others

\* the vocabularies WordManager() may have loaded
Catalogs ==
    {<<>>,
     <<Word(1, "food")>>,
     <<Word(1, "food"), Word(2, "verbs"),
       [id |-> 3, german |-> "Wort", english |-> "word"]>>}

\* config['learning']['enabled_categories']
CategoryInputs ==
    {<<>>, <<"all">>, <<"food", "verbs">>, <<"all", "food">>, <<"travel">>}

\* the directory after a run that showed word 2 a thousand hours before
\* HStart and word 1 two hours earlier, and was closed
OldStore == save_history(ShownUpTo(EmptyStore, 2, HStart - 1000), TRUE, "none").fs

\* the data directories of SpecSelect
SelectDirs == {MarkedStore, OldStore}

\* the word ids passed to mark_known and mark_difficult
SelectMarks == {2}

\* the window and its trackers as the variables hold them
Window ==
    [words |-> words, config |-> config, overlay |-> overlay,
     hash_order |-> hash_order, toaster |-> toaster,
     current_word_id |-> current_word_id, pick |-> pick,
     threads |-> threads, notified |-> notified,
     clock |-> clock, now |-> now,
     history |-> history, save_counter |-> save_counter, fs |-> fs,
     hcall |-> hcall, since_write |-> since_write, hops |-> hops,
     data |-> data, gam_file |-> gam_file, call |-> call, log |-> log]

\* MainWindow.__init__ up to line 56, at clock reading t: the data files are
\* ensured, the vocabulary ws, the enabled categories cfg and the time rules
\* ov are loaded, both trackers are constructed on the directory dir and the
\* file gfile, the notification manager has a toaster or none
MainWindow(ws, cfg, ov, toast, dir, gfile, t) ==
    LET d == ensure_data_files_exist(dir)
    IN  [words |-> ws, config |-> cfg, overlay |-> ov,
         hash_order |-> {}, toaster |-> toast,
         current_word_id |-> None, pick |-> NoPick,
         threads |-> <<>>, notified |-> <<>>,
         clock |-> t, now |-> t \div 24,
         history |-> HistoryTracker(d).history,
         save_counter |-> HistoryTracker(d).save_counter, fs |-> d,
         hcall |-> NoHCall, since_write |-> 0, hops |-> NoOps,
         data |-> _load_data(gfile), gam_file |-> gfile, call |-> NoCall, log |-> <<>>]

\* MainWindow._update_word(word), lines 293-301: the word becomes the current
\* one, record_display(word['id']), record_word_viewed(), _check_daily_goal()
_update_word(w, word_id) ==
    LET r == record_display([history |-> w.history, save_counter |-> w.save_counter,
                             fs |-> w.fs], word_id, w.clock, w.clock, "none")
        v == record_word_viewed(w.data, w.now, w.now, w.now)
        notes == _check_daily_goal(v.data, w.now)
    IN  [w EXCEPT
           !.current_word_id = word_id,
           !.history = r.history,
           !.save_counter = r.save_counter,
           !.fs = r.fs,
           !.hcall = [op |-> "record_display", word_id |-> word_id, max_entries |-> 0,
                      exc |-> r.exc, saved |-> r.saved, ret |-> r.ret],
           !.since_write = IF r.saved THEN 0 ELSE w.since_write + 1,
           !.data = v.data,
           !.gam_file = save_data(w.gam_file, v.data, "ok"),
           !.call = [t1 |-> w.now, t2 |-> w.now, t3 |-> w.now, pre |-> w.data,
                     post |-> v.data, new |-> v.new, ret |-> v.ret],
           !.log = Append(w.log, [t1 |-> w.now, t2 |-> w.now,
                                  first |-> w.data.last_activity_date = None,
                                  current_streak |-> v.data.current_streak,
                                  longest_streak |-> v.data.longest_streak,
                                  total_study_days |-> v.data.total_study_days]),
           !.threads = Started(w.threads, notes, w.toaster),
           !.notified = Printed(w.notified, notes, w.toaster)]

\* the draws that random.choice / random.choices can make in
\* display_next_word() on the window w
WindowDraws(w, listed) ==
    Draws(w.words, w.history, w.current_word_id,
          overlay_categories(w.config, w.overlay, w.clock % 24, listed), w.clock)

\* the lists that line 225 can make in display_next_word() on the window w:
\* the list it made of the same two lists before in this process, else the
\* shared categories in any order; the empty list stands in when line 225
\* is not reached
ListedOrders(w) ==
    LET categories == time_categories(w.overlay.time_rules, w.clock % 24)
        made == {m \in w.hash_order :
                    m.enabled_categories = w.config /\ m.categories = categories}
    IN  IF ~ Intersects(w.config, w.overlay, w.clock % 24) THEN {<<>>}
        ELSE IF made # {} THEN {m.listed : m \in made}
        ELSE HashOrders(set_and(w.config, categories))

\* MainWindow.display_next_word(), lines 203-274: a word is selected and,
\* when there is one, _update_word shows and records it at once (animations
\* off, or no word on display yet), or _animate_word_transition starts the
\* fade-out whose end will show it.  released: line 274 rebinds
\* self._current_animation, the only reference to the animation object of an
\* earlier fade-out that still runs; that animation is then destroyed and
\* never finishes, or it lives on and finishes.  listed: the list that line
\* 225 makes, one of ListedOrders(w)
display_next_word(w, draw, released, listed) ==
    LET enabled_categories == overlay_categories(w.config, w.overlay, w.clock % 24, listed)
        next_word == select_next_word(w.words, w.history, w.current_word_id,
                                      enabled_categories, w.clock, draw)
        selected == [w EXCEPT
                       !.pick = [called |-> TRUE, history |-> w.history, t |-> w.clock,
                                 current_id |-> w.current_word_id,
                                 enabled_categories |-> enabled_categories,
                                 draw |-> draw, weighted |-> next_word.weighted,
                                 ret |-> IF next_word.none THEN None
                                         ELSE next_word.word.id,
                                 fading |-> w.pick.fading],
                       !.hops.shows = @ + 1,
                       !.hash_order =
                           IF Intersects(w.config, w.overlay, w.clock % 24)
                           THEN @ \cup {[enabled_categories |-> w.config,
                                         categories |-> time_categories(w.overlay.time_rules,
                                                                        w.clock % 24),
                                         listed |-> listed]}
                           ELSE @]
    IN  IF next_word.none THEN selected
        ELSE IF w.overlay.enable_animations /\ w.current_word_id # None
        THEN [selected EXCEPT
                !.pick.fading = Append(IF released THEN <<>> ELSE @, next_word.word.id)]
        ELSE _update_word(selected, next_word.word.id)

\* MainWindow._finish_transition(next_word), lines 276-280: the fade-out has
\* ended, _update_word shows and records the word
_finish_transition(w) ==
    _update_word([w EXCEPT !.pick.fading = Tail(@)], Head(w.pick.fading))

\* the variables hold the window w
IsWindow(w) ==
    /\ words = w.words
    /\ config = w.config
    /\ overlay = w.overlay
    /\ hash_order = w.hash_order
    /\ toaster = w.toaster
    /\ current_word_id = w.current_word_id
    /\ pick = w.pick
    /\ threads = w.threads
    /\ notified = w.notified
    /\ clock = w.clock
    /\ now = w.now
    /\ history = w.history
    /\ save_counter = w.save_counter
    /\ fs = w.fs
    /\ hcall = w.hcall
    /\ since_write = w.since_write
    /\ hops = w.hops
    /\ data = w.data
    /\ gam_file = w.gam_file
    /\ call = w.call
    /\ log = w.log
    /\ vocab = NoVocab
    /\ sv = NoSave
    /\ upsets = 0

\* the window after MainWindow(): line 57, the last of the constructor,
\* displays the first word; the budget of displays counts the timer's ticks
Constructed(w, draw, listed) ==
    \E shown \in {display_next_word(w, draw, FALSE, listed)} :
       IsWindow([shown EXCEPT !.hops = NoOps])

\* MainWindow(): time_based_categories is off (the default), animations are
\* on (the default) or off
WInit ==
    \E ws \in Catalogs, cfg \in CategoryInputs, dir \in SelectDirs,
       enable_animations \in BOOLEAN :
       \E w \in {MainWindow(ws, cfg,
                           [NoOverlay EXCEPT !.enable_animations = enable_animations],
                           TRUE, dir,
                           [state |-> "missing", doc |-> DefaultData], HStart)} :
          \E listed \in ListedOrders(w) :
             \E draw \in WindowDraws(w, listed) : Constructed(w, draw, listed)

\* an hour passes
WHour ==
    /\ hops.others < MaxOthers
    /\ WindowSteps < MaxPicks
    /\ clock' = clock + 1
    /\ now' = (clock + 1) \div 24
    /\ hops' = [hops EXCEPT !.others = @ + 1]
    /\ UNCHANGED <<history, save_counter, fs, hcall, since_write, sv>>
    /\ UNCHANGED <<data, gam_file, call, log, upsets>>
    /\ UNCHANGED wvars

\* the hours by which the system clock may be set back
SetBacks == {1, 4}

\* the system clock is set back
WClockSetBack ==
    /\ hops.others < MaxOthers
    /\ WindowSteps < MaxPicks
    /\ \E back \in SetBacks :
          /\ clock' = clock - back
          /\ now' = (clock - back) \div 24
    /\ hops' = [hops EXCEPT !.others = @ + 1]
    /\ upsets' = upsets + 1
    /\ UNCHANGED <<history, save_counter, fs, hcall, since_write, sv>>
    /\ UNCHANGED <<data, gam_file, call, log>>
    /\ UNCHANGED wvars

\* mark_known(word_id) or mark_difficult(word_id)
WMark ==
    /\ hops.others < MaxOthers
    /\ WindowSteps < MaxPicks
    /\ \E word_id \in SelectMarks :
          \/ Leaves(mark_known(Tracker, word_id, clock, "none"), "mark_known", word_id, 0, "none")
          \/ Leaves(mark_difficult(Tracker, word_id, clock, "none"),
                    "mark_difficult", word_id, 0, "none")
    /\ UNCHANGED <<clock, sv>>
    /\ UNCHANGED gvars
    /\ UNCHANGED wvars

\* the window becomes w; the clock, the vocabulary and the configuration stay
BecomesWindow(w) ==
    /\ current_word_id' = w.current_word_id
    /\ pick' = w.pick
    /\ threads' = w.threads
    /\ notified' = w.notified
    /\ history' = w.history
    /\ save_counter' = w.save_counter
    /\ fs' = w.fs
    /\ hcall' = w.hcall
    /\ since_write' = w.since_write
    /\ hops' = w.hops
    /\ data' = w.data
    /\ gam_file' = w.gam_file
    /\ call' = w.call
    /\ log' = w.log
    /\ UNCHANGED <<clock, sv, now, upsets>>
    /\ hash_order' = w.hash_order
    /\ UNCHANGED <<vocab, words, config, toaster, overlay>>

\* the timer fires: display_next_word()
DisplayNextWord ==
    /\ WindowSteps < MaxPicks
    /\ \E listed \in ListedOrders(Window) :
          \E draw \in WindowDraws(Window, listed),
             released \in IF pick.fading = <<>> THEN {FALSE} ELSE BOOLEAN :
             \E w \in {display_next_word(Window, draw, released, listed)} : BecomesWindow(w)

\* a fade-out animation ends 300 ms after its start: _finish_transition
FinishTransition ==
    /\ pick.fading # <<>>
    /\ \E w \in {_finish_transition(Window)} : BecomesWindow(w)

WNext == WHour \/ WClockSetBack \/ WMark \/ DisplayNextWord \/ FinishTransition

SpecSelect == WInit /\ [][WNext]_vars

----------------------------------------------------------------------------
(* Vocabulary of the selection properties *)

\* the pool of the latest select_next_word call
PickPool == candidate_pool(words, pick.enabled_categories)

\* the weight that the latest call gave to a word
PickWeight(word) == calculate_word_weight(word, pick.history, pick.current_id, pick.t)

\* the latest call returned a word
Picked == pick.called /\ pick.ret # None

\* Python's "word in list"
InPool(word, pool) == \E i \in DOMAIN pool : pool[i] = word

----------------------------------------------------------------------------
(* C23 *)

\* C23: select_next_word never returns the word on display when the pool
\* (after the category filter and its fallback) holds a word with another
\* id; so two words displayed one after the other differ.
C23_NeverReselectsCurrent ==
    (Picked /\ \E i \in DOMAIN PickPool : PickPool[i].id # pick.current_id)
        => pick.ret # pick.current_id

----------------------------------------------------------------------------
(* C24 *)

\* C24: select_next_word returns None exactly when the vocabulary is empty;
\* otherwise it returns a word of the vocabulary, whatever the history, the
\* current word and the enabled categories (a filter that matches no word
\* and a pool that holds only the current word included).
C24_NoneOnlyForEmptyCatalog ==
    pick.called =>
        /\ pick.ret = None <=> words = <<>>
        /\ pick.ret # None => \E i \in DOMAIN words : words[i].id = pick.ret

\* the pool held only the word on display, and the call returned it
C24_Witness ==
    /\ Picked
    /\ Len(PickPool) = 1
    /\ PickPool[1].id = pick.current_id
    /\ ~ pick.weighted
    /\ pick.ret = pick.current_id

----------------------------------------------------------------------------
(* C25 *)

\* the word of the vocabulary that the latest call returned
PickedWord == words[CHOOSE i \in DOMAIN words : words[i].id = pick.ret]

\* C25: when the list of enabled categories is not empty and not exactly
\* ['all'], and some word of the vocabulary has one of these categories, the
\* word returned has one of them.  (With an empty list or ['all'] every word
\* may be returned.)
C25_FilterRespected ==
    (/\ Picked
     /\ pick.enabled_categories \notin {<<>>, <<"all">>}
     /\ \E i \in DOMAIN words : CategoryIn(words[i], pick.enabled_categories))
        => CategoryIn(PickedWord, pick.enabled_categories)

----------------------------------------------------------------------------
(* C26 *)

\* the word is not on display
NotCurrent(word) == current_word_id = None \/ word.id # current_word_id

\* the weight of a word now
WeightNow(word, h) == calculate_word_weight(word, h, current_word_id, clock)

\* the word was never shown: no record, or a record that only holds marks
NeverShown(word) ==
    /\ get_times_shown(history, word.id) = 0
    /\ get_hours_since_shown(history, word.id, clock).none

\* the word was shown, and not later than the clock reads now
ShownBefore(word) ==
    /\ get_times_shown(history, word.id) >= 1
    /\ ~ get_hours_since_shown(history, word.id, clock).none
    /\ get_hours_since_shown(history, word.id, clock).hours >= 0

\* the word was shown, between 0 and hours hours ago
ShownWithin(word, hours) ==
    /\ ShownBefore(word)
    /\ get_hours_since_shown(history, word.id, clock).hours <= hours

\* C26: of two words that are not on display, one never shown and one shown
\* at least once and at most 1000 hours ago, the never shown one has the
\* strictly greater weight, whatever the marks of the shown one.
C26_NeverShownOutweighsShown ==
    \A i \in DOMAIN words, j \in DOMAIN words :
        (/\ NotCurrent(words[i]) /\ NotCurrent(words[j])
         /\ NeverShown(words[i])
         /\ ShownWithin(words[j], 1000))
            => Less(WeightNow(words[j], history), WeightNow(words[i], history))

\* word 3 was never shown, word 2 was shown exactly 1000 hours ago and is
\* marked difficult, and neither is on display
C26_Witness ==
    /\ \E i \in DOMAIN words : words[i].id = 3
    /\ current_word_id \notin {2, 3}
    /\ NoHistory(history, 3)
    /\ get_times_shown(history, 2) >= 1
    /\ get_hours_since_shown(history, 2, clock) = [none |-> FALSE, hours |-> 1000]
    /\ is_marked_difficult(history, 2)

----------------------------------------------------------------------------
(* C27 *)

\* the history in which the record of the word, if any, carries no mark
Unmarked(h, word_id) ==
    IF NoHistory(h, word_id) THEN h
    ELSE SetItem(h, Str(word_id),
                 SetField(SetField(Item(h, Str(word_id)), "marked_known", FALSE),
                          "marked_difficult", FALSE))

\* the history after mark_known(word_id), resp. mark_difficult(word_id), now
AfterMarkKnown(word_id) == mark_known(Tracker, word_id, clock, "none").history
AfterMarkDifficult(word_id) == mark_difficult(Tracker, word_id, clock, "none").history

\* C27 as claimed: for every word that is not on display, whatever its
\* times_shown and the hours since it was shown, mark_known makes its weight
\* strictly smaller than that of the same record without mark, and
\* mark_difficult strictly larger.
C27_AsClaimed ==
    \A i \in DOMAIN words :
        NotCurrent(words[i]) =>
            LET id == words[i].id
                plain == WeightNow(words[i], Unmarked(history, id))
            IN  /\ Less(WeightNow(words[i], AfterMarkKnown(id)), plain)
                /\ Less(plain, WeightNow(words[i], AfterMarkDifficult(id)))

\* C27: for every word that is not on display and was shown at least once,
\* not later than the clock reads now, mark_known makes its weight strictly
\* smaller than that of the same record without mark and mark_difficult
\* strictly larger; for a word that was never shown (times_shown = 0) the
\* marks leave the weight as it is.
C27_MarksMoveWeightOnceShown ==
    \A i \in DOMAIN words :
        NotCurrent(words[i]) =>
            LET id == words[i].id
                plain == WeightNow(words[i], Unmarked(history, id))
                known == WeightNow(words[i], AfterMarkKnown(id))
                difficult == WeightNow(words[i], AfterMarkDifficult(id))
            IN  /\ ShownBefore(words[i])
                      => Less(known, plain) /\ Less(plain, difficult)
                /\ get_times_shown(history, id) = 0
                      => known = plain /\ difficult = plain

\* mark_known(2) was called on word 2, which was shown before and is not on
\* display
C27_Witness ==
    /\ hcall.op = "mark_known"
    /\ hcall.word_id = 2
    /\ \E i \in DOMAIN words : words[i].id = 2
    /\ current_word_id # 2
    /\ is_marked_known(history, 2)
    /\ ShownWithin(words[2], 1000)

----------------------------------------------------------------------------
(* C28 *)

\* the candidates and the weights of the latest call
PickCandidates == Candidates(PickPool, pick.history, pick.current_id, pick.t)
PickWeights == Weights(PickPool, pick.history, pick.current_id, pick.t)

\* the place of the returned word among the candidates
PickIndex == CHOOSE i \in DOMAIN PickCandidates : PickCandidates[i].id = pick.ret

\* C28: the weighted draw returns the first candidate whose cumulative weight
\* exceeds the draw: candidate i is returned for the draws from the
\* cumulative weight of its predecessors up to, not including, that weight
\* plus its own, a range as long as its weight; so every candidate, all of
\* positive weight, can be returned, and a word of weight zero never is.
C28_WeightedDraw ==
    (Picked /\ pick.weighted) =>
        /\ \E i \in DOMAIN PickCandidates : PickCandidates[i].id = pick.ret
        /\ cum_weights(PickWeights, PickIndex - 1) <= pick.draw
        /\ pick.draw < cum_weights(PickWeights, PickIndex - 1) + PickWeights[PickIndex]
        /\ Positive(PickWeight(PickedWord))
        /\ \A i \in DOMAIN PickCandidates :
              /\ PickWeights[i] > 0
              /\ choices(PickCandidates, PickWeights, cum_weights(PickWeights, i - 1))
                    = PickCandidates[i]
              /\ choices(PickCandidates, PickWeights, cum_weights(PickWeights, i) - 1)
                    = PickCandidates[i]
        /\ pick.draw \in 0 .. (Total(PickWeights) - 1)

\* the draw was the first of the range of the second of three candidates,
\* and the call returned that candidate
C28_Witness ==
    /\ Picked
    /\ pick.weighted
    /\ Len(PickCandidates) = 3
    /\ PickIndex = 2
    /\ pick.draw = PickWeights[1]

----------------------------------------------------------------------------
(* WordManager(): the load of the vocabulary (specification SpecVocab) *)

\* records per vocabulary file
MaxRecords == 2

\* the records that a "words" list may hold: two words, a record without
\* 'german', a record whose 'german' is the empty string, and null
JsonNull == [json |-> "null"]

VocabRecords ==
    {[id |-> 1, german |-> "Haus", english |-> "house"],
     [id |-> 2, german |-> "Baum", english |-> "tree", category |-> "nature"],
     [id |-> 3, english |-> "bread"],
     [id |-> 4, german |-> "", english |-> "milk"],
     JsonNull}

\* the lists of up to n members of S
ListsUpTo(S, n) == UNION {[1 .. k -> S] : k \in 0 .. n}

\* the *.json files a vocabulary directory may hold: one that does not
\* parse, one that is not UTF-8, an object without 'words', and objects with
\* a 'words' list
VocabFiles ==
    {TornFile, UndecodableFile, WrittenFile([version |-> 1])}
    \cup {WrittenFile([words |-> l]) : l \in ListsUpTo(VocabRecords, MaxRecords)}

\* the files that may come second in the directory
SecondFiles ==
    {TornFile,
     WrittenFile([words |-> <<[id |-> 5, german |-> "Brot", english |-> "bread"]>>]),
     WrittenFile([words |-> <<[id |-> 1, german |-> "Haus", english |-> "house"],
                              [id |-> 6, english |-> ""]>>])}

\* the vocabulary directories: the files in the order in which glob gives them
VocabDirs ==
    {<<>>} \cup {<<f>> : f \in VocabFiles}
    \cup {<<f, g>> : f \in VocabFiles, g \in SecondFiles}

\* validate_word_schema(word): all(field in word for field in required_fields)
validate_word_schema(word) == {"id", "german", "english"} \subseteq DOMAIN word

\* "field in word" raises TypeError when word is None
validate_word_schema_raises(word) == word = JsonNull

\* lines 41-47: the loop over data['words']; loaded is [words, exc]
RECURSIVE LoadRecords(_, _)
LoadRecords(records, loaded) ==
    IF records = <<>> \/ loaded.exc # "none" THEN loaded
    ELSE IF validate_word_schema_raises(Head(records))
         THEN [loaded EXCEPT !.exc = "TypeError"]
    ELSE IF validate_word_schema(Head(records))
         THEN LoadRecords(Tail(records),
                          [loaded EXCEPT !.words = Append(@, Head(records))])
    ELSE LoadRecords(Tail(records), loaded)

\* lines 37-47: the loop over the files; a file that does not parse, an empty
\* object and an object without 'words' are passed over; the exception of
\* load_json_safe ends the loop
RECURSIVE LoadFilesOf(_, _)
LoadFilesOf(files, loaded) ==
    IF files = <<>> \/ loaded.exc # "none" THEN loaded
    ELSE LET got == load_json_safe(Head(files))
         IN  IF got.exc # "none" THEN [loaded EXCEPT !.exc = got.exc]
             ELSE IF ~ got.none /\ "words" \in DOMAIN got.data
             THEN LoadFilesOf(Tail(files), LoadRecords(got.data.words, loaded))
             ELSE LoadFilesOf(Tail(files), loaded)

\* _load_vocabulary(): self.words, or the exception that ends WordManager()
_load_vocabulary(files) == LoadFilesOf(files, [words |-> <<>>, exc |-> "none"])

\* MainWindow() at line 40, about to construct the WordManager: the data
\* files are ensured, no tracker is constructed yet
VInit ==
    /\ vocab \in {[files |-> d, loaded |-> FALSE, exc |-> "none"] : d \in VocabDirs}
    /\ words = <<>>
    /\ config = <<>>
    /\ current_word_id = None
    /\ pick = NoPick
    /\ toaster = FALSE
    /\ threads = <<>>
    /\ notified = <<>>
    /\ overlay = NoOverlay
    /\ hash_order = {}
    /\ clock = HStart
    /\ now = HStart \div 24
    /\ fs = ensure_data_files_exist(NoDir)
    /\ history = EmptyHistory
    /\ save_counter = 0
    /\ hcall = NoHCall
    /\ since_write = 0
    /\ hops = NoOps
    /\ sv = NoSave
    /\ GIdle

\* WordManager(vocab_dir)
LoadVocabulary ==
    /\ ~ vocab.loaded
    /\ LET loaded == _load_vocabulary(vocab.files)
       IN  /\ vocab' = [vocab EXCEPT !.loaded = TRUE, !.exc = loaded.exc]
           /\ words' = IF loaded.exc = "none" THEN loaded.words ELSE <<>>
    /\ UNCHANGED <<config, current_word_id, pick, toaster, threads, notified, overlay,
                   hash_order>>
    /\ UNCHANGED gvars
    /\ UNCHANGED hvars

VNext == LoadVocabulary

SpecVocab == VInit /\ [][VNext]_vars

----------------------------------------------------------------------------
(* C29 *)

\* the records of all 'words' lists of the directory, in load order
RECURSIVE SourceRecords(_)
SourceRecords(files) ==
    IF files = <<>> THEN <<>>
    ELSE LET got == load_json_safe(Head(files))
         IN  (IF ~ got.none /\ "words" \in DOMAIN got.data THEN got.data.words ELSE <<>>)
             \o SourceRecords(Tail(files))

\* the record has id, german and english, none of them empty
ValidRecord(record) ==
    /\ {"id", "german", "english"} \subseteq DOMAIN record
    /\ record.german # ""
    /\ record.english # ""

\* C29: the load never aborts, and afterwards get_all_words() holds exactly
\* the source records that have id, german and english present and
\* non-empty, in load order; every other record is passed over.
C29_OnlyValidWordsLoaded ==
    vocab.loaded =>
        /\ vocab.exc = "none"
        /\ \A i \in DOMAIN words : ValidRecord(words[i])
        /\ words = SelectSeq(SourceRecords(vocab.files), ValidRecord)


----------------------------------------------------------------------------
(* Notifications of the display timer (specification SpecNotify) *)

\* the daily goals of the runs explored
NotifyGoals == {1, 20}

\* the earlier runs explored: none, and six days in a row that end yesterday
NotifyRuns == {r \in EarlierRuns : r.days \in {0, 6}}

\* the gamification.json that an earlier run r left with the daily goal set
NotifyFile(r, goal) ==
    IF r.days = 0 /\ goal = DefaultData.daily_goal
    THEN [state |-> "missing", doc |-> DefaultData]
    ELSE [state |-> "written",
          doc |-> set_daily_goal(IF r.days = 0 THEN DefaultData
                                 ELSE Played(Boot - 1, r.days, r.per_day),
                                 goal)]

\* the vocabulary of SpecNotify: one word
NotifyWords == <<Word(1, "food")>>

\* the configuration of SpecNotify: animations are switched off in the
\* settings, every tick of the timer shows its word at once
NoAnimations == [NoOverlay EXCEPT !.enable_animations = FALSE]

\* MainWindow(): gamification.json as an earlier run left it, with or without
\* a toaster (win10toast installed or not, lines 5-9 and 17-21)
NInit ==
    \E r \in NotifyRuns, goal \in NotifyGoals, toast \in BOOLEAN :
       \E w \in {MainWindow(NotifyWords, <<>>, NoAnimations, toast, NoDir,
                           NotifyFile(r, goal), Boot * 24 + 22)} :
          \E listed \in ListedOrders(w) :
             \E draw \in WindowDraws(w, listed) : Constructed(w, draw, listed)

\* midnight passes
NMidnight ==
    /\ now + 1 \in Days
    /\ now' = now + 1
    /\ clock' = (now + 1) * 24
    /\ UNCHANGED <<data, gam_file, call, log, upsets>>
    /\ UNCHANGED <<history, save_counter, fs, hcall, since_write, hops, sv>>
    /\ UNCHANGED wvars

\* the settings dialog changes the daily goal (main thread)
NSetDailyGoal ==
    /\ upsets < MaxUpsets
    /\ \E goal \in NotifyGoals :
          /\ data' = set_daily_goal(data, goal)
          /\ gam_file' = save_data(gam_file, data', "ok")
    /\ upsets' = upsets + 1
    /\ UNCHANGED <<now, call, log>>
    /\ UNCHANGED hvars
    /\ UNCHANGED wvars

\* a notification thread runs _show: show_toast shows the toast, or raises and
\* the exception is printed (lines 45-46)
NThreadShow ==
    /\ \E k \in DOMAIN threads, raised \in BOOLEAN :
          /\ threads[k].pc = "started"
          /\ LET r == _show(threads[k], data, now)
             IN  /\ data' = r.data
                 /\ notified' = IF raised THEN notified ELSE Append(notified, r.toast)
          /\ threads' = [threads EXCEPT ![k].pc = IF raised THEN "failed" ELSE "done"]
    /\ UNCHANGED <<now, gam_file, call, log, upsets>>
    /\ UNCHANGED hvars
    /\ UNCHANGED <<vocab, words, config, current_word_id, pick, toaster, overlay,
                   hash_order>>

\* the names passed to show_achievement
AchievementNames == {"Week Warrior - 7 day streak!"}

\* show_achievement(achievement_name) is called (main thread); the program
\* has no caller of it.  The call counts in the budget of the displays, the
\* other calls that start notifications
ShowAchievement ==
    /\ hops.others < MaxOthers
    /\ WindowSteps < MaxPicks
    /\ \E achievement_name \in AchievementNames :
          /\ threads' = Started(threads, <<show_achievement(achievement_name)>>, toaster)
          /\ notified' = Printed(notified, <<show_achievement(achievement_name)>>, toaster)
    /\ hops' = [hops EXCEPT !.others = @ + 1]
    /\ UNCHANGED <<now, data, gam_file, call, log, upsets>>
    /\ UNCHANGED <<clock, history, save_counter, fs, hcall, since_write, sv>>
    /\ UNCHANGED <<vocab, words, config, current_word_id, pick, toaster, overlay,
                   hash_order>>

NNext ==
    \/ NMidnight
    \/ DisplayNextWord
    \/ NSetDailyGoal
    \/ ShowAchievement
    \/ NThreadShow

SpecNotify == NInit /\ [][NNext]_vars

\* thread k runs _show in this step
ThreadRuns(k) == threads[k].pc = "started" /\ threads'[k].pc # "started"

\* the progress of today
ProgressNow == DictGet(data.daily_progress, Strftime(now), 0)

\* C30: a notification thread modifies neither the history nor the progress
\* state, and the title and message it shows are the values that the main
\* thread computed in the call that started it: they are fixed from the start
\* of the thread on, whatever the main thread does before the thread runs.
C30_ThreadsOnlyShowTheirSnapshot ==
    [][/\ \A k \in DOMAIN threads :
             /\ k \in DOMAIN threads'
             /\ threads'[k].note = threads[k].note
             /\ ThreadRuns(k) =>
                   /\ UNCHANGED <<data, gam_file, history, save_counter, fs>>
                   /\ notified' \in {notified,
                                     Append(notified, [by |-> "toast",
                                                       note |-> threads[k].note])}
       /\ \A k \in DOMAIN threads' \ DOMAIN threads :
             /\ threads'[k].pc = "started"
             /\ \/ \E i \in DOMAIN _check_daily_goal(data', now) :
                      threads'[k].note = _check_daily_goal(data', now)[i]
                \/ \E achievement_name \in AchievementNames :
                      threads'[k].note = show_achievement(achievement_name)]_vars

\* a thread has shown the daily goal toast after the main thread had counted
\* another word: the toast names the count of the call that started it
C30_Witness ==
    /\ threads # <<>>
    /\ threads[1].pc = "done"
    /\ threads[1].note.words_count # None
    /\ notified # <<>>
    /\ notified[Len(notified)] = [by |-> "toast", note |-> threads[1].note]
    /\ ProgressNow > threads[1].note.words_count


----------------------------------------------------------------------------
(* The two trackers of MainWindow side by side (specification SpecStores) *)

\* calls explored per run
MaxStoreCalls == 3

\* the two trackers that MainWindow holds (lines 41 and 43)
Trackers ==
    [history_tracker |-> Tracker,
     gamification_tracker |-> [data |-> data, data_file |-> gam_file]]

\* the call op of the HistoryTracker
HistoryCall(tr, op, word_id, max_entries, t, fault) ==
    IF op = "record_display" THEN record_display(tr, word_id, t, t, fault)
    ELSE IF op = "mark_known" THEN mark_known(tr, word_id, t, fault)
    ELSE IF op = "mark_difficult" THEN mark_difficult(tr, word_id, t, fault)
    ELSE cleanup_old_entries(tr, max_entries, fault)

\* a history_tracker call that counts the word in the progress state as well
history_tracker_call_counts(objs, op, word_id, max_entries, t, fault) ==
    [history_tracker |-> HistoryCall(objs.history_tracker, op, word_id, max_entries, t, fault),
     gamification_tracker |->
        [objs.gamification_tracker EXCEPT
            !.data = record_word_viewed(@, t \div 24, t \div 24, t \div 24).data]]

\* self.history_tracker.<op>(...): the method works on the fields of its own
\* object (history, save_counter, history_path) and holds no reference to
\* the other tracker
history_tracker_call(objs, op, word_id, max_entries, t, fault) ==
    [history_tracker |-> HistoryCall(objs.history_tracker, op, word_id, max_entries, t, fault),
     gamification_tracker |-> objs.gamification_tracker]

\* self.gamification_tracker.record_word_viewed(): works on data and
\* data_file of its own object
gamification_tracker_call(objs, t, io) ==
    LET d == record_word_viewed(objs.gamification_tracker.data, t, t, t).data
    IN  [history_tracker |-> [history |-> objs.history_tracker.history,
                              save_counter |-> objs.history_tracker.save_counter,
                              fs |-> objs.history_tracker.fs],
         gamification_tracker |->
            [data |-> d,
             data_file |-> save_data(objs.gamification_tracker.data_file, d, io)]]

StoreOps == {"record_display", "mark_known", "mark_difficult", "cleanup_old_entries"}
StoreWords == {2}
StoreFaults == {"none", "replace"}

\* start-up with the files that earlier runs left
TInit ==
    /\ clock = HStart
    /\ now = HStart \div 24
    /\ fs \in {ensure_data_files_exist(dir) : dir \in {NoDir, MarkedStore}}
    /\ history = HistoryTracker(fs).history
    /\ save_counter = HistoryTracker(fs).save_counter
    /\ hcall = NoHCall
    /\ since_write = 0
    /\ hops = NoOps
    /\ sv = NoSave
    /\ \E r \in NotifyRuns :
          gam_file = IF r.days = 0 THEN [state |-> "missing", doc |-> DefaultData]
                     ELSE [state |-> "written", doc |-> Played(now - 1, r.days, r.per_day)]
    /\ data = _load_data(gam_file)
    /\ call = NoCall
    /\ log = <<>>
    /\ upsets = 0
    /\ WIdle

StoreCalls == hops.shows + hops.others + Len(log)

\* one call of the HistoryTracker
THistoryCall ==
    /\ StoreCalls < MaxStoreCalls
    /\ \E op \in StoreOps, word_id \in StoreWords, max_entries \in {1}, fault \in StoreFaults :
          LET objs == history_tracker_call(Trackers, op, word_id, max_entries, clock, fault)
              r == objs.history_tracker
          IN  /\ Leaves(r, op, IF op = "cleanup_old_entries" THEN 0 ELSE word_id,
                        IF op = "cleanup_old_entries" THEN max_entries ELSE 0, fault)
              /\ data' = objs.gamification_tracker.data
              /\ gam_file' = objs.gamification_tracker.data_file
    /\ UNCHANGED <<clock, sv, now, call, log, upsets>>
    /\ UNCHANGED wvars

\* one record_word_viewed call
TRecordWordViewed ==
    /\ StoreCalls < MaxStoreCalls
    /\ \E io \in IoOutcomes :
          LET objs == gamification_tracker_call(Trackers, now, io)
              r == record_word_viewed(data, now, now, now)
          IN  /\ data' = objs.gamification_tracker.data
              /\ gam_file' = objs.gamification_tracker.data_file
              /\ history' = objs.history_tracker.history
              /\ save_counter' = objs.history_tracker.save_counter
              /\ fs' = objs.history_tracker.fs
              /\ call' = [t1 |-> now, t2 |-> now, t3 |-> now, pre |-> data,
                          post |-> r.data, new |-> r.new, ret |-> r.ret]
              /\ log' = Append(log, [t1 |-> now, t2 |-> now,
                                     first |-> data.last_activity_date = None,
                                     current_streak |-> r.data.current_streak,
                                     longest_streak |-> r.data.longest_streak,
                                     total_study_days |-> r.data.total_study_days])
    /\ UNCHANGED <<clock, hcall, since_write, hops, sv, now, upsets>>
    /\ UNCHANGED wvars

\* a day passes
TDay ==
    /\ now + 1 \in Days
    /\ now' = now + 1
    /\ clock' = clock + 24
    /\ UNCHANGED <<history, save_counter, fs, hcall, since_write, hops, sv>>
    /\ UNCHANGED <<data, gam_file, call, log, upsets>>
    /\ UNCHANGED wvars

TNext == THistoryCall \/ TRecordWordViewed \/ TDay

SpecStores == TInit /\ [][TNext]_vars

\* a call of the HistoryTracker is made in this step
HistoryCalled == hops' # hops

\* a record_word_viewed call is made in this step
ActivityCalled == Len(log') > Len(log)

\* C31: record_display, mark_known, mark_difficult and cleanup_old_entries
\* leave the progress state and its file unchanged, and record_word_viewed
\* leaves the history, its save counter and its file unchanged.
C31_StoresIndependent ==
    [][/\ HistoryCalled => UNCHANGED <<data, gam_file>>
       /\ ActivityCalled => UNCHANGED <<history, save_counter, fs>>]_vars

\* both stores hold something and each has been called: a cleanup that
\* discarded a record of the history after a word was counted
C31_Witness ==
    /\ hcall.op = "cleanup_old_entries"
    /\ hcall.exc = "none"
    /\ Len(history) = 1
    /\ data.total_words_learned > 0
    /\ log # <<>>


----------------------------------------------------------------------------
(* first_shown (specification SpecHistory) *)

\* first_shown of the record of word_id in h; None when there is no record
FirstShown(h, word_id) ==
    IF NoHistory(h, word_id) THEN None
    ELSE Field(Item(h, Str(word_id)), "first_shown", None)

\* C32: first_shown of a record is the time of the first record_display of
\* its word: a mark on a word without record leaves first_shown null, the
\* record_display that takes times_shown from 0 to 1 sets it to its own time,
\* and later record_display calls leave it as it is.
C32_FirstShownIsFirstExposure ==
    [][/\ (CallOf("mark_known") \/ CallOf("mark_difficult")) /\ NoHistory(history, hcall'.word_id)
             => FirstShown(history', hcall'.word_id) = None
       /\ CallOf("record_display") =>
             FirstShown(history', hcall'.word_id) =
                IF get_times_shown(history, hcall'.word_id) = 0 THEN Isoformat(clock)
                ELSE FirstShown(history, hcall'.word_id)]_vars


----------------------------------------------------------------------------
(* The display timer with the time-of-day overlay (specification SpecOverlay) *)

\* time rules edited in config.json: a bucket that names 'all', an empty
\* bucket, a bucket of three categories and a bucket without entry
EditedTimeRules ==
    [morning |-> <<"all", "food">>, afternoon |-> <<>>,
     evening |-> <<"travel", "verbs", "food">>]

OverlayInputs ==
    {NoOverlay,
     [NoOverlay EXCEPT !.time_based_categories = TRUE],
     [NoOverlay EXCEPT !.time_based_categories = TRUE, !.time_rules = EditedTimeRules]}

\* the user's enabled categories; the lists that name 'all' and are not
\* ['all'] come from an edited config.json
EnabledInputs ==
    {<<"all">>, <<>>, <<"food">>, <<"food", "verbs">>, <<"travel">>, <<"all", "food">>,
     <<"all", "all">>, <<"food", "verbs", "travel">>}

\* the vocabulary of SpecOverlay
OverlayWords ==
    <<Word(1, "food"), Word(2, "verbs"), [id |-> 3, german |-> "Wort", english |-> "word"]>>

\* MainWindow() at any hour of the day
OInit ==
    \E cfg \in EnabledInputs, ov \in OverlayInputs, hour \in 0 .. 23 :
       \E w \in {MainWindow(OverlayWords, cfg, ov, TRUE, NoDir,
                           [state |-> "missing", doc |-> DefaultData],
                           HStart - 22 + hour)} :
          \E listed \in ListedOrders(w) :
             \E draw \in WindowDraws(w, listed) : Constructed(w, draw, listed)

ONext == WHour \/ DisplayNextWord \/ FinishTransition

SpecOverlay == OInit /\ [][ONext]_vars

\* the buckets as the claim lists them
ClaimedBucket(hour) ==
    IF hour \in 5 .. 11 THEN "morning"
    ELSE IF hour \in 12 .. 16 THEN "afternoon"
    ELSE IF hour \in 17 .. 21 THEN "evening"
    ELSE "night"

\* the latest display ran with the overlay enabled
OverlayPicked == pick.called /\ overlay.time_based_categories

\* the category list of the bucket of the latest display
PickBucket == time_categories(overlay.time_rules, pick.t % 24)

\* the categories that the user's list and the bucket of the latest display
\* share
PickShared == Members(config) \cap Members(PickBucket)

\* C33 as claimed: with the overlay enabled the categories passed to the
\* selection are the user's categories intersected with the bucket's, or the
\* bucket's alone when the intersection is empty.
C33_AsClaimed ==
    OverlayPicked =>
        Members(pick.enabled_categories) =
            IF PickShared # {} THEN PickShared ELSE Members(PickBucket)

\* C33 as amended: every hour has the bucket of the claim; while the bucket
\* has categories the categories passed are the bucket's when the user's list
\* is exactly ['all'], else the intersection when it is not empty and the
\* bucket's alone when it is, never the empty set; a bucket without
\* categories leaves the user's list as it is.
C33_OverlayCategories ==
    /\ \A hour \in 0 .. 23 : time_bucket(hour) = ClaimedBucket(hour)
    /\ OverlayPicked =>
          /\ PickBucket = <<>> => pick.enabled_categories = config
          /\ PickBucket # <<>> =>
                /\ pick.enabled_categories # <<>>
                /\ Members(pick.enabled_categories) =
                      IF config = <<"all">> THEN Members(PickBucket)
                      ELSE IF PickShared # {} THEN PickShared
                      ELSE Members(PickBucket)

\* the user's categories share nothing with the bucket of the hour and the
\* bucket's categories were passed
C33_Witness ==
    /\ OverlayPicked
    /\ config = <<"travel">>
    /\ PickBucket = <<"food", "adjectives">>
    /\ pick.enabled_categories = PickBucket
    /\ pick.ret # None


----------------------------------------------------------------------------
(* Shutdown (specification SpecHistory) *)

\* closeEvent has run and no write of history.json failed in it
ClosedWithWrite ==
    /\ hcall.op \in {"closeEvent", "_exit_app"}
    /\ hcall.exc = "none"
    /\ hcall.ret # "False"

\* C34: closeEvent writes history.json whatever the debounce counter is;
\* when that write does not fail, history.json holds the history in memory
\* and the next start loads that history.
C34_ShutdownFlushes ==
    ClosedWithWrite =>
        /\ hcall.saved
        /\ FileIsMemory
        /\ HistoryTracker(fs).history = history

\* the window was closed after one to four displays that the debounce had
\* not written
C34_Witness ==
    /\ ClosedWithWrite
    /\ hops.shows \in 1 .. 4
    /\ hops.faults = 0
    /\ get_times_shown(history, 1) >= 1
    /\ FileIsMemory


----------------------------------------------------------------------------
(* Failed writes (specification SpecHistory) *)

\* a step of the write of history.json fails in the call of this step
WriteFails == hops'.faults > hops.faults

\* C35: a failed write is reported as a value: a record_display, mark_known,
\* mark_difficult or cleanup_old_entries call (or closeEvent) in which a step
\* of save_json_atomic fails, the creation of the directory included, does
\* not raise, save_json_atomic returns False in it, and record_display keeps
\* its effect in memory; save_json_atomic returns True only when
\* history.json holds the history in memory.
C35_FailedWriteIsAValue ==
    [][/\ WriteFails =>
             /\ hcall'.exc = "none"
             /\ hcall'.ret = "False"
             /\ CallOf("record_display") =>
                   get_times_shown(history', hcall'.word_id)
                      = get_times_shown(history, hcall'.word_id) + 1
       /\ hcall'.ret = "True" => FileIsMemory']_vars


----------------------------------------------------------------------------
(* The debounce counter (specification SpecHistory) *)

\* the history that a crash at this point leaves: what history.json holds
Durable == _load_history(fs)

RECURSIVE SumOver(_, _)
SumOver(f, S) ==
    IF S = {} THEN 0
    ELSE LET x == CHOOSE y \in S : TRUE IN f[x] + SumOver(f, S \ {x})

\* the record_display calls whose effect is in memory and not in history.json
Unwritten ==
    SumOver([w \in AllWords |-> get_times_shown(history, w) - get_times_shown(Durable, w)],
            AllWords)

\* C36: while no write fails, between the calls save_counter is in 0..4 and
\* equals the number of record_display calls whose effect is in memory and
\* not in history.json, and every mark in memory is in history.json.
C36_CounterCountsUnwritten ==
    hops.faults = 0 =>
        /\ save_counter \in 0 .. 4
        /\ Unwritten = save_counter
        /\ \A w \in AllWords :
              /\ get_times_shown(Durable, w) <= get_times_shown(history, w)
              /\ is_marked_known(Durable, w) = is_marked_known(history, w)
              /\ is_marked_difficult(Durable, w) = is_marked_difficult(history, w)

\* four displays since the last write, after a mark that is in the file
C36_Witness ==
    /\ hops.faults = 0
    /\ save_counter = 4
    /\ Unwritten = 4
    /\ \E w \in AllWords : is_marked_difficult(Durable, w)
    /\ ~ FileIsMemory


----------------------------------------------------------------------------
(* The counter after a failed write (specification SpecHistory) *)

\* the call of this step tried to write history.json
WriteAttempted == hops' # hops /\ hcall'.saved

\* C37: save_counter is 0 after every call that tried to write history.json,
\* whether the write succeeded or not, so that the record_display call after
\* a failed write makes no new attempt; and after a write that succeeds
\* history.json holds the history in memory.
C37_CounterResetAfterEveryAttempt ==
    [][/\ WriteAttempted => save_counter' = 0
       /\ CallOf("record_display") /\ hops.faults > 0 /\ since_write = 0 /\ hcall.saved
             => ~ hcall'.saved
       /\ WriteAttempted /\ hcall'.ret = "True" => FileIsMemory']_vars


----------------------------------------------------------------------------
(* The counters of the progress state (specification Spec) *)

\* the dates on which the calls of this run started never go backwards
DatesForward == \A i \in 1 .. (Len(log) - 1) : log[i].t1 <= log[i + 1].t1

\* C38: from the default state, while the dates of the calls never go
\* backwards, total_study_days is the number of dates that are keys of
\* daily_progress and current_streak is at most total_study_days; and
\* total_study_days never decreases.
C38_StudyDaysCountDates ==
    /\ [](DatesForward =>
             /\ data.total_study_days = Cardinality(DOMAIN data.daily_progress)
             /\ data.current_streak <= data.total_study_days)
    /\ [][data'.total_study_days >= data.total_study_days]_vars

\* a streak broken by a day without call: three dates, a streak of one
C38_Witness ==
    /\ DatesForward
    /\ Len(log) >= 3
    /\ log[1].first
    /\ data.total_study_days = 3
    /\ data.current_streak = 1
    /\ Cardinality(DOMAIN data.daily_progress) = 3


----------------------------------------------------------------------------
(* The total of the words (specification Spec) *)

\* the sum of daily_progress over all its dates
ProgressSum == SumOver(data.daily_progress, DOMAIN data.daily_progress)

\* C39: from the default state, total_words_learned is the sum of
\* daily_progress over all dates.
C39_TotalIsSumOfDays == data.total_words_learned = ProgressSum

\* words on two dates, several on one of them
C39_Witness ==
    /\ Len(log) >= 3
    /\ log[1].first
    /\ Cardinality(DOMAIN data.daily_progress) = 2
    /\ data.total_words_learned = 3
    /\ ProgressSum = 3

====
